---- MODULE Spec2Model ----
(***************************************************************************)
(* Model of the process-backed JSON-RPC bridge of playwright-mcp:          *)
(* PlaywrightProcessManager (playwright-process.ts) and MCPHandler          *)
(* (mcp-handler.ts).                                                       *)
(*                                                                         *)
(* Node.js runs the bridge on one event loop.  Every action below is one    *)
(* event-loop task (an HTTP request, a timer, a stdout "data" event, an     *)
(* "exit" event) together with all promise continuations it triggers,       *)
(* because promise continuations (microtasks) run to completion before the  *)
(* next task starts.                                                        *)
(***************************************************************************)
EXTENDS Integers, Sequences, FiniteSets, TLC

\* ---------------------------------------------------------------- bounds
\* call slots: how many calls can be outstanding (or leave residue) at once
MaxCalls == 3
\* child slots: how many children can exist (running or exited with their
\* stdout still open) at once
MaxProcs == 2
\* handshake closure slots: how many closures can run (or leave residue) at once
MaxAttempts == 2
\* ids handed out by ++messageIdCounter over a run
MaxCounter == 2
\* event-loop tasks over a run
MaxSteps == 8

\* maxConcurrentOperations as passed to the MCPHandler constructor
maxConcurrentOperations == 2

Calls == 1..MaxCalls
Procs == 1..MaxProcs
Attempts == 1..MaxAttempts

\* request.id as supplied by the caller; NoId is "request.id === undefined"
NoId == -1
ClientIds == {0, 1}
\* keys the correlation table can hold: client ids, counter ids, the handshake's 0
IdSpace == 0..MaxCounter

\* the owner of a pending record: a call c, or handshake attempt a as -a
None == 0
InitOwner(a) == 0 - a
IsAttempt(o) == o < 0
AttemptOf(o) == 0 - o
Owners == Calls \cup {InitOwner(a) : a \in Attempts}

\* the code the exit event reports
ExitCodes == {1}

\* SSE connections (GET /mcp), numbered in the order they may open.
MaxConns == 2
Conns == 1..MaxConns

\* What the const proc of a handshake closure names once the slot of that
\* child is free again.
Gone == -1

\* The requests MCPHandler.handle answers itself: jsonrpc is not "2.0", or
\* it is and the method is missing.
Invalid == {"invalid", "noMethod"}

NoOutcome == [kind |-> "none", src |-> 0]
Return(request, response) == [request |-> request, response |-> response]
NoReturn == Return(NoId, NoId)
Out(k, s) == [kind |-> k, src |-> s]

VARIABLES
  process,          \* this.process: 0 is null, else the ChildProcess
  procState,        \* per child slot: "none" | "running" | "exited" (stdout open)
  killed,           \* ChildProcess.killed     (kept for the current handle only:
  stdinOpen,        \* !proc.stdin.destroyed    nothing reads them of a child
  ready,            \* see Deliver              that this.process does not name)
  stdin,            \* per child: the lines written to it and not yet answered
  pendingMessages,  \* this.pendingMessages: id -> owner of the record (0: absent)
  timers,           \* the armed timers, oldest first: the 30 s deadline timer
                    \*   of an owner, the 1 s start-up wait of a handshake closure
  messageIdCounter, \* this.messageIdCounter
  isInitialized,    \* this.isInitialized
  initPromise,      \* this.initPromise: 0 is null, else the handshake closure
  att,              \* per closure slot: "unused" | "starting" | "sent" | "done"
  waiters,          \* per running handshake closure: the calls awaiting its
                    \*   promise, creator first
  proc,             \* per running handshake closure: the child its const proc
                    \*   names (Gone once that child's pipes have closed)
  activeOperations, \* MCPHandler.activeOperations
  pc,               \* per call slot: "idle" | "waitInit" | "waitResp" | "done"
  callKind,         \* per call: "forward" | "invalid" | "noMethod" | "initialize"
  reqId,            \* per call: request.id (NoId while undefined); it is
                    \*   sendMessageInternal that assigns an absent one
  outcome,          \* per settled call whose slot is not yet free: how it settled
  afterExit,        \* per call: it arrived when this.process was null and a
                    \*   child had exited
  suppliedId,       \* per call: request.id as MCPHandler.handle received it
  returned,         \* per call the latest task settled: request.id as handle
                    \*   received it and the id member of the response it
                    \*   returned (NoId: undefined)
  steps,            \* number of tasks run so far
  settled,          \* the calls and handshake closures whose promise the latest
                    \*   task settled, and how
  delivered,        \* the owners of the records the latest task matched to a
                    \*   message, in the order of the calls of resolve / reject
  lines,            \* the lines the child writes to stdout, as bytes, without
                    \*   the newline that ends each
  rd,               \* number of bytes of that output the bridge has read
  buffer,           \* this.buffer, as characters
  handled,          \* the messages handed to handleMessage so far, in order
  listeners,        \* mcpHandler.listeners("notification"): the SSE
                    \*   connections whose notificationHandler is registered
  conn,             \* per SSE connection: "none" | "open" | "ended" |
                    \*   "aborted" | "closed"
  sseLog,           \* the notification events written to SSE responses, in
                    \*   order: the connection and the number of the publication
  pubs,             \* per publication so far: the listeners at that moment and
                    \*   those of them whose res.write threw
  config,           \* config.authToken ("" when unset) and whether
                    \*   config.authSecretName is set
  cachedToken,      \* cachedToken of the auth middleware: null, undefined or a
                    \*   string
  tokenPromise,     \* tokenPromise: "null" | "pending"
  tokenLoads,       \* the calls of getAuthToken: how many were made so far
                    \*   and how many of them have not settled
  awaiting,         \* the requests suspended in await getCachedAuthToken, in
                    \*   the order they began to wait
  http,             \* per HTTP request to /mcp, each on a connection of its
                    \*   own: what was sent, where it stands, what was answered
  elicitationIdCounter, \* ElicitationHandler.elicitationIdCounter
  pendingElicitations,  \* ElicitationHandler.pendingElicitations: per id n
                    \*   (the key "elicitation-n") the record stored under it
  elicitationTimers, \* the armed timers of requestElicitation, each named by
                    \*   the call that armed it
  elicitationSettled, \* per call of requestElicitation: the calls of resolve
                    \*   and reject of its promise so far, in order
  elicitationEvents, \* the ids of the elicitationRequest events emitted so far
  elicitationCall   \* the latest call of a method of ElicitationHandler or of
                    \*   a timer callback: the method, its id and arguments,
                    \*   and whether it threw

vars == <<process, procState, killed, stdinOpen, ready, stdin,
          pendingMessages, timers, messageIdCounter, isInitialized, initPromise,
          att, waiters, proc, activeOperations, pc, callKind, reqId, outcome, afterExit,
          suppliedId, returned, steps, settled, delivered, lines, rd, buffer, handled, listeners, conn, sseLog,
          pubs, config, cachedToken, tokenPromise, tokenLoads, awaiting, http,
          elicitationIdCounter, pendingElicitations, elicitationTimers,
          elicitationSettled, elicitationEvents, elicitationCall>>

\* The variables of the HTTP layer.
httpVars == <<config, cachedToken, tokenPromise, tokenLoads, awaiting, http>>

\* The fields of ElicitationHandler and what its calls did.
elicitVars == <<elicitationIdCounter, pendingElicitations, elicitationTimers,
                elicitationSettled, elicitationEvents, elicitationCall>>

\* The whole program state as one record, so that the steps one task runs in
\* sequence can be composed as functions from state to state.  settled
\* describes one task and starts empty in each; from is the child and the
\* kind of request line whose answer the task is handling, if any; failing
\* is the set of SSE connections whose res.write throws during the task, and
\* thrown says that an exception is propagating.
St ==
  [process |-> process, procState |-> procState, killed |-> killed,
   stdinOpen |-> stdinOpen, ready |-> ready, stdin |-> stdin,
   pendingMessages |-> pendingMessages, timers |-> timers,
   messageIdCounter |-> messageIdCounter, isInitialized |-> isInitialized,
   initPromise |-> initPromise, att |-> att, waiters |-> waiters,
   proc |-> proc,
   activeOperations |-> activeOperations, pc |-> pc, callKind |-> callKind,
   reqId |-> reqId, outcome |-> outcome, afterExit |-> afterExit,
   suppliedId |-> suppliedId, returned |-> [c \in Calls |-> NoReturn],
   steps |-> steps + 1, settled |-> [o \in Owners |-> NoOutcome],
   delivered |-> <<>>,
   from |-> [p |-> 0, kind |-> ""], overflow |-> FALSE,
   buffer |-> buffer, handled |-> handled, listeners |-> listeners,
   conn |-> conn, sseLog |-> sseLog, pubs |-> pubs, failing |-> {},
   thrown |-> FALSE, cachedToken |-> cachedToken, tokenPromise |-> tokenPromise,
   tokenLoads |-> tokenLoads, awaiting |-> awaiting, http |-> http]

\* Timers.  All deadline timers run 30 s and all start-up waits 1 s, and
\* Node fires timers of equal duration in the order they were armed; a
\* deadline timer armed after a start-up wait began fires after it.
Deadline(o) == [t |-> "deadline", o |-> o]
Startup(a) == [t |-> "startup", o |-> InitOwner(a)]
Armed(S, o) == \E k \in 1..Len(S.timers) : S.timers[k] = Deadline(o)
SelectSeqNot(s, e) == SelectSeq(s, LAMBDA x : x # e)
setTimeout(S, e) == [S EXCEPT !.timers = Append(@, e)]
clearTimeout(S, o) == [S EXCEPT !.timers = SelectSeqNot(@, Deadline(o))]
Due(S, e) ==
  \E k \in 1..Len(S.timers) :
     /\ S.timers[k] = e
     /\ \A j \in 1..(k - 1) :
           /\ S.timers[j].t # e.t
           /\ e.t = "deadline" => S.timers[j].t # "startup"

\* What a settled call or a finished handshake closure may still have behind
\* it: an armed timer, a record, a request line a child has not answered.
Residue(S, o) ==
  \/ Armed(S, o)
  \/ \E i \in IdSpace : S.pendingMessages[i] = o
  \/ \E p \in Procs : \E k \in 1..Len(S.stdin[p]) : S.stdin[p][k].owner = o

\* A settled call or finished closure with nothing left behind frees its
\* slot, and the fields of a child that this.process no longer names are
\* forgotten.
Recycle(S) ==
  LET free == {c \in Calls : S.pc[c] = "done" /\ ~Residue(S, c)}
      unused == {a \in Attempts : S.att[a] = "done" /\ ~Residue(S, InitOwner(a))}
  IN [S EXCEPT !.pc = [c \in Calls |-> IF c \in free THEN "idle" ELSE @[c]],
               !.callKind = [c \in Calls |-> IF c \in free THEN "forward" ELSE @[c]],
               !.reqId = [c \in Calls |-> IF c \in free THEN NoId ELSE @[c]],
               !.outcome = [c \in Calls |-> IF c \in free THEN NoOutcome ELSE @[c]],
               !.afterExit = [c \in Calls |-> IF c \in free THEN FALSE ELSE @[c]],
               !.suppliedId = [c \in Calls |-> IF c \in free THEN NoId ELSE @[c]],
               !.att = [a \in Attempts |-> IF a \in unused THEN "unused" ELSE @[a]],
               !.proc = [a \in Attempts |->
                           IF S.att[a] \in {"starting", "sent"} THEN @[a] ELSE 0],
               !.killed = [p \in Procs |-> IF p = S.process THEN @[p] ELSE FALSE],
               !.stdinOpen = [p \in Procs |-> IF p = S.process THEN @[p] ELSE TRUE],
               !.ready = [p \in Procs |-> IF p = S.process THEN @[p] ELSE FALSE]]

\* The fields of PlaywrightProcessManager and MCPHandler, and the calls, take
\* the values of T.
Bridge(T) ==
  /\ process' = T.process
  /\ procState' = T.procState
  /\ killed' = T.killed
  /\ stdinOpen' = T.stdinOpen
  /\ ready' = T.ready
  /\ stdin' = T.stdin
  /\ pendingMessages' = T.pendingMessages
  /\ timers' = T.timers
  /\ messageIdCounter' = T.messageIdCounter
  /\ isInitialized' = T.isInitialized
  /\ initPromise' = T.initPromise
  /\ att' = T.att
  /\ waiters' = T.waiters
  /\ proc' = T.proc
  /\ activeOperations' = T.activeOperations
  /\ pc' = T.pc
  /\ callKind' = T.callKind
  /\ reqId' = T.reqId
  /\ outcome' = T.outcome
  /\ afterExit' = T.afterExit
  /\ suppliedId' = T.suppliedId
  /\ returned' = T.returned
  /\ settled' = T.settled
  /\ delivered' = T.delivered

\* T is the state the task leaves; a task that would exceed a bound of the
\* model (one more child, one more handshake closure, one more counter id)
\* is not taken.
Commit(T0) ==
  \E T \in {Recycle(T0)} :
  /\ ~T.overflow
  /\ steps < MaxSteps
  /\ steps' = T.steps
  /\ Bridge(T)
  /\ UNCHANGED <<lines, rd, buffer, handled, listeners, conn, sseLog, pubs>>
  /\ UNCHANGED httpVars
  /\ UNCHANGED elicitVars

\* The values of cachedToken and of an awaited token.
TokenNull == [k |-> "null", v |-> <<>>]
TokenUndefined == [k |-> "undefined", v |-> <<>>]
TokenString(v) == [k |-> "string", v |-> v]

\* A response: the HTTP status (0: none sent) and the members of the error
\* object of its body (code 0: the body has no error member).  A request
\* records where it stands (pos: "none" | "auth" | "handler" | "done"), the
\* call it became, whether its route handler was invoked, the middleware
\* that answered it, if any, and how its call settled (cause).
NoResponse == [status |-> 0, code |-> 0, message |-> "", data |-> ""]
NoRequest ==
  [verb |-> "", auth |-> <<>>, body |-> "", pos |-> "none", call |-> 0,
   reached |-> FALSE, rejectedBy |-> "", cause |-> "", response |-> NoResponse]

\* No configuration of authentication and no HTTP request yet.
NoHttp ==
  /\ config = [authToken |-> <<>>, authSecretName |-> FALSE]
  /\ cachedToken = TokenNull
  /\ tokenPromise = "null"
  /\ tokenLoads = [started |-> 0, pending |-> 0]
  /\ awaiting = <<>>
  /\ http = [r \in Conns |-> NoRequest]

\* The calls of requestElicitation the model follows: call n draws the id
\* "elicitation-n" from the counter.
MaxElicitations == 3
ElicitIds == 1..MaxElicitations

\* An absent entry of pendingElicitations, and an entry: resolve and reject
\* are those of the promise of call promise, timeout is the timer that call
\* armed.
NoPending == [promise |-> 0, timeout |-> 0]
PendingElicitation(n, t) == [promise |-> n, timeout |-> t]

\* No call of ElicitationHandler yet.
NoElicitCall == [op |-> "", id |-> 0, arg |-> "", thrown |-> ""]

\* new ElicitationHandler()
NoElicitation ==
  /\ elicitationIdCounter = 0
  /\ pendingElicitations = [i \in ElicitIds |-> NoPending]
  /\ elicitationTimers = {}
  /\ elicitationSettled = [n \in ElicitIds |-> <<>>]
  /\ elicitationEvents = <<>>
  /\ elicitationCall = NoElicitCall

Init ==
  /\ process = 0
  /\ procState = [p \in Procs |-> "none"]
  /\ killed = [p \in Procs |-> FALSE]
  /\ stdinOpen = [p \in Procs |-> TRUE]
  /\ ready = [p \in Procs |-> FALSE]
  /\ stdin = [p \in Procs |-> <<>>]
  /\ pendingMessages = [i \in IdSpace |-> None]
  /\ timers = <<>>
  /\ messageIdCounter = 0
  /\ isInitialized = FALSE
  /\ initPromise = 0
  /\ att = [a \in Attempts |-> "unused"]
  /\ waiters = [a \in Attempts |-> <<>>]
  /\ proc = [a \in Attempts |-> 0]
  /\ activeOperations = 0
  /\ pc = [c \in Calls |-> "idle"]
  /\ callKind = [c \in Calls |-> "forward"]
  /\ reqId = [c \in Calls |-> NoId]
  /\ outcome = [c \in Calls |-> NoOutcome]
  /\ afterExit = [c \in Calls |-> FALSE]
  /\ suppliedId = [c \in Calls |-> NoId]
  /\ returned = [c \in Calls |-> NoReturn]
  /\ steps = 0
  /\ settled = [o \in Owners |-> NoOutcome]
  /\ delivered = <<>>
  /\ lines = <<>>
  /\ rd = 0
  /\ buffer = <<>>
  /\ handled = <<>>
  /\ listeners = <<>>
  /\ conn = [k \in Conns |-> "none"]
  /\ sseLog = <<>>
  /\ pubs = <<>>
  /\ NoHttp
  /\ NoElicitation

\* ------------------------------------------------- PlaywrightProcessManager

\* startProcess(): kill the old handle if any, spawn, this.process = proc
startProcess(S) ==
  IF \A q \in Procs : S.procState[q] # "none" THEN [S EXCEPT !.overflow = TRUE]
  ELSE LET S1 == IF S.process # 0 THEN [S EXCEPT !.killed[S.process] = TRUE] ELSE S
           p == CHOOSE q \in Procs : /\ S.procState[q] = "none"
                                     /\ \A r \in Procs : S.procState[r] = "none" => q <= r
       IN [S1 EXCEPT !.process = p, !.procState[p] = "running"]

\* getProcess(): the live handle, or a fresh spawn
getProcess(S) ==
  IF S.process # 0 /\ ~S.killed[S.process] THEN S ELSE startProcess(S)

\* sendRawMessage(message): "" when the line was written, else the error thrown
sendRawError(S) ==
  IF S.process = 0 \/ S.killed[S.process] THEN "notRunning"
  ELSE IF ~S.stdinOpen[S.process] THEN "stdinUnavailable"
  ELSE ""

\* sendRawMessage putting the line ahead of the lines written before it.
sendRawMessagePrepends(S, line) ==
  IF sendRawError(S) # "" THEN S
  ELSE [S EXCEPT !.stdin[S.process] = <<line>> \o @]

\* One call of proc.stdin.write with the whole line, newline included; the
\* stream keeps the chunks of successive calls in order.
sendRawMessage(S, line) ==
  IF sendRawError(S) # "" THEN S
  ELSE [S EXCEPT !.stdin[S.process] = Append(@, line)]

\* The id a timer's closure captured for its owner.
IdOf(S, o) == IF IsAttempt(o) THEN 0 ELSE S.reqId[o]

\* settleCall with activeOperations-- at the end of the try block instead of
\* in finally: it runs only when the interceptor returned a response.
settleCallNoFinally(S, c, out) ==
  IF S.pc[c] = "done" THEN S
  ELSE [S EXCEPT !.pc[c] = "done", !.settled[c] = out, !.outcome[c] = out,
                 !.returned[c] = Return(S.suppliedId[c], S.reqId[c]),
                 !.activeOperations =
                    IF out.kind \in {"result", "rpcError"} THEN @ - 1 ELSE @]

\* settleCall with id: null in the responses instead of id: request.id.
settleCallNullId(S, c, out) ==
  IF S.pc[c] = "done" THEN S
  ELSE [S EXCEPT !.pc[c] = "done", !.settled[c] = out, !.outcome[c] = out,
                 !.returned[c] = Return(S.suppliedId[c], NoId),
                 !.activeOperations =
                    IF S.callKind[c] = "initialize" THEN @ ELSE @ - 1]

\* A call's promise settles: MCPHandler.handle returns (catch / finally) a
\* response with id: request.id, read from the request object as it is by
\* then, and activeOperations-- runs for a call that was admitted.  Settling
\* a promise that is already settled does nothing.
settleCall(S, c, out) ==
  IF S.pc[c] = "done" THEN S
  ELSE [S EXCEPT !.pc[c] = "done", !.settled[c] = out, !.outcome[c] = out,
                 !.returned[c] = Return(S.suppliedId[c], S.reqId[c]),
                 !.activeOperations =
                    IF S.callKind[c] = "initialize" THEN @ ELSE @ - 1]

\* sendMessageInternal(request) for owner o with request.id = rid: getProcess,
\* assign the id, register the record and its timer, write the line.  A throw
\* of sendRawMessage inside the promise executor rejects the promise and
\* leaves the record and the timer behind.
registerAndWrite(S, o, rid, kind) ==
  LET S1 == getProcess(S)
      id == IF rid # NoId THEN rid ELSE S1.messageIdCounter + 1
      S2 == [setTimeout(S1, Deadline(o)) EXCEPT
                       !.messageIdCounter = IF rid # NoId THEN @ ELSE @ + 1,
                       !.pendingMessages[id] = o,
                       !.reqId = IF IsAttempt(o) THEN @ ELSE [@ EXCEPT ![o] = id]]
  IN IF S1.overflow THEN S1
     ELSE IF rid = NoId /\ S1.messageIdCounter >= MaxCounter
          THEN [S1 EXCEPT !.overflow = TRUE]
     ELSE sendRawMessage(S2, [kind |-> kind, id |-> id, owner |-> o])

\* sendMessageInternal with the throw of sendRawMessage caught and logged
\* inside the promise executor: the promise stays pending.
sendMessageInternalSwallows(S, c) ==
  LET S2 == registerAndWrite(S, c, S.reqId[c], "request")
  IN IF S2.overflow THEN S2 ELSE [S2 EXCEPT !.pc[c] = "waitResp"]

sendMessageInternal(S, c) ==
  LET S1 == getProcess(S)
      S2 == registerAndWrite(S, c, S.reqId[c], "request")
      err == sendRawError(S1)
  IN IF S2.overflow THEN S2
     ELSE IF err # "" THEN settleCall(S2, c, Out(err, 0))
     ELSE [S2 EXCEPT !.pc[c] = "waitResp"]

\* ------------------------------------------------------ handshake sequencer

\* The order in which the callers awaiting a handshake promise resume: the
\* creator awaits the promise of the async function initialize(), which
\* adopts initPromise and so settles a few microtasks after it; the joiners
\* await initPromise itself.
ReleaseOrder(S, a) ==
  IF S.waiters[a] = <<>> THEN <<>>
  ELSE Tail(S.waiters[a]) \o <<Head(S.waiters[a])>>

RECURSIVE rejectWaiters(_, _, _)
rejectWaiters(S, ws, out) ==
  IF ws = <<>> THEN S
  ELSE rejectWaiters(settleCall(S, Head(ws), out), Tail(ws), out)

\* After the handshake promise resolved: initialize() callers return,
\* sendMessage() callers go on to sendMessageInternal(request).
RECURSIVE releaseWaiters(_, _)
releaseWaiters(S, ws) ==
  IF ws = <<>> THEN S
  ELSE LET c == Head(ws)
           S1 == IF S.callKind[c] = "initialize"
                 THEN settleCall(S, c, Out("ok", 0))
                 ELSE sendMessageInternal(S, c)
       IN releaseWaiters(S1, Tail(ws))

\* catch { throw error } finally { this.initPromise = null }
attemptFail(S, a, out) ==
  LET S1 == [S EXCEPT !.att[a] = "done", !.settled[InitOwner(a)] = out,
                      !.initPromise = 0, !.waiters[a] = <<>>]
  IN rejectWaiters(S1, ReleaseOrder(S, a), out)

\* The initialize response arrived: write notifications/initialized, set
\* isInitialized, finally { this.initPromise = null }.  The child reads
\* the notification and answers nothing, so the line is not kept in stdin;
\* ready records that the line went to the child whose answer to an
\* initialize request this is.
attemptSucceed(S, a) ==
  IF sendRawError(S) # "" THEN attemptFail(S, a, Out(sendRawError(S), 0))
  ELSE LET S1 == [S EXCEPT !.ready[S.process] =
                     @ \/ (S.from.p = S.process /\ S.from.kind = "initialize")]
           S2 == [S1 EXCEPT !.isInitialized = TRUE, !.att[a] = "done",
                            !.settled[InitOwner(a)] = Out("ok", 0),
                            !.initPromise = 0, !.waiters[a] = <<>>]
       IN releaseWaiters(S2, ReleaseOrder(S, a))

\* initialize(), past its two early returns: start the closure, which runs
\* up to its first suspension (getProcess, then the 1 s start-up wait).
createAttempt(S, c) ==
  IF \A b \in Attempts : S.att[b] # "unused" THEN [S EXCEPT !.overflow = TRUE]
  ELSE LET a == CHOOSE b \in Attempts : /\ S.att[b] = "unused"
                                        /\ \A d \in Attempts : S.att[d] = "unused" => b <= d
           S1 == getProcess(S)
       IN IF S1.overflow THEN S1
          ELSE [setTimeout(S1, Startup(a)) EXCEPT
                     !.att[a] = "starting", !.initPromise = a,
                     !.proc[a] = S1.process,
                     !.waiters[a] = <<c>>, !.pc[c] = "waitInit"]

joinAttempt(S, c) ==
  [S EXCEPT !.waiters[S.initPromise] = Append(@, c), !.pc[c] = "waitInit"]

\* initialize()
initialize(S, c) ==
  IF S.isInitialized THEN settleCall(S, c, Out("ok", 0))
  ELSE IF S.initPromise # 0 THEN joinAttempt(S, c)
  ELSE createAttempt(S, c)

\* sendMessage(request)
sendMessage(S, c) ==
  IF ~S.isInitialized /\ S.initPromise = 0 THEN initialize(S, c)
  ELSE IF S.initPromise # 0 THEN joinAttempt(S, c)
  ELSE sendMessageInternal(S, c)

\* The promise sendMessageInternal returned to owner o settles with out.
settle(S, o, out) ==
  IF ~IsAttempt(o) THEN settleCall(S, o, out)
  ELSE IF S.att[AttemptOf(o)] # "sent" THEN S
  ELSE IF out.kind = "result" THEN attemptSucceed(S, AttemptOf(o))
  ELSE attemptFail(S, AttemptOf(o), out)

\* handleMessage(message) for a message with this id, no method name, written
\* by the child in answer to the request line of owner src.
handleMessage(S, id, isErr, src) ==
  LET o == S.pendingMessages[id]
  IN IF o = None THEN S
     ELSE settle(clearTimeout([S EXCEPT !.pendingMessages[id] = None,
                                        !.delivered = Append(@, o)], o),
                 o, Out(IF isErr THEN "rpcError" ELSE "result", src))

\* The setTimeout callback with a guard ahead of it that returns when no
\* record is under the id: if (!this.pendingMessages.has(id)) return.
timeoutFiredIfRecord(S, o) ==
  IF S.pendingMessages[IdOf(S, o)] = None THEN clearTimeout(S, o)
  ELSE settle(clearTimeout([S EXCEPT !.pendingMessages[IdOf(S, o)] = None], o),
              o, Out("timeout", 0))

\* The setTimeout callback of sendMessageInternal for owner o.
timeoutFired(S, o) ==
  settle(clearTimeout([S EXCEPT !.pendingMessages[IdOf(S, o)] = None], o),
         o, Out("timeout", 0))

\* proc.on("exit"): reject every record, clear its timer, clear the table.
RECURSIVE rejectPending(_, _, _)
rejectPending(S, ids, code) ==
  IF ids = {} THEN S
  ELSE LET id == CHOOSE i \in ids : \A j \in ids : i <= j
           o == S.pendingMessages[id]
           S1 == clearTimeout([S EXCEPT !.pendingMessages[id] = None], o)
       IN rejectPending(settle(S1, o, Out("exited", code)), ids \ {id}, code)

\* The exit handler sending the request of a pending call again, through
\* sendMessageInternal, instead of rejecting it.
exitHandlerRetries(S, p, code) ==
  LET S1 == [S EXCEPT !.procState[p] = "exited", !.process = 0,
                      !.isInitialized = FALSE]
      cs == {c \in Calls : /\ S.pc[c] = "waitResp"
                           /\ \E i \in IdSpace : S.pendingMessages[i] = c}
      c == CHOOSE d \in cs : \A e \in cs : d <= e
  IN IF cs = {}
     THEN rejectPending(S1, {i \in IdSpace : S.pendingMessages[i] # None}, code)
     ELSE sendMessageInternal(
            clearTimeout([S1 EXCEPT !.pendingMessages = [i \in IdSpace |-> None]], c), c)

exitHandler(S, p, code) ==
  LET S1 == [S EXCEPT !.procState[p] = "exited", !.process = 0,
                      !.isInitialized = FALSE]
  IN rejectPending(S1, {i \in IdSpace : S.pendingMessages[i] # None}, code)

\* kill()
kill(S) ==
  IF S.process = 0 THEN S
  ELSE [S EXCEPT !.killed[S.process] = TRUE, !.process = 0,
                 !.isInitialized = FALSE, !.initPromise = 0]

\* ------------------------------------------------------------- MCPHandler

\* handle with activeOperations++ ahead of the capacity check, so that a
\* rejected call leaves the counter incremented.
handleIncrementsFirst(S, c, rid, kind) ==
  LET S0 == [S EXCEPT !.callKind[c] = kind, !.reqId[c] = rid,
                      !.suppliedId[c] = rid,
                      !.afterExit[c] = /\ S.process = 0
                                       /\ \E q \in Procs : S.procState[q] = "exited",
                      !.activeOperations = @ + 1]
  IN IF S0.activeOperations > maxConcurrentOperations
     THEN [S0 EXCEPT !.pc[c] = "done", !.settled[c] = Out("capacity", 0),
                     !.returned[c] = Return(rid, rid),
                     !.outcome[c] = Out("capacity", 0)]
     ELSE IF kind \in Invalid THEN settleCall(S0, c, Out(kind, 0))
          ELSE sendMessage(S0, c)

\* handle with > for >= in the capacity check.
handleOffByOne(S, c, rid, kind) ==
  LET S0 == [S EXCEPT !.callKind[c] = kind, !.reqId[c] = rid,
                      !.suppliedId[c] = rid,
                      !.afterExit[c] = /\ S.process = 0
                                       /\ \E q \in Procs : S.procState[q] = "exited"]
  IN IF S.activeOperations > maxConcurrentOperations
     THEN [S0 EXCEPT !.pc[c] = "done", !.settled[c] = Out("capacity", 0),
                     !.returned[c] = Return(rid, rid),
                     !.outcome[c] = Out("capacity", 0)]
     ELSE LET S1 == [S0 EXCEPT !.activeOperations = @ + 1]
          IN IF kind \in Invalid THEN settleCall(S1, c, Out(kind, 0))
             ELSE sendMessage(S1, c)

\* handle without the check of request.method.
handleNoMethodCheck(S, c, rid, kind) ==
  LET S0 == [S EXCEPT !.callKind[c] = kind, !.reqId[c] = rid,
                      !.suppliedId[c] = rid,
                      !.afterExit[c] = /\ S.process = 0
                                       /\ \E q \in Procs : S.procState[q] = "exited"]
  IN IF S.activeOperations >= maxConcurrentOperations
     THEN [S0 EXCEPT !.pc[c] = "done", !.settled[c] = Out("capacity", 0),
                     !.returned[c] = Return(rid, rid),
                     !.outcome[c] = Out("capacity", 0)]
     ELSE LET S1 == [S0 EXCEPT !.activeOperations = @ + 1]
          IN IF kind = "invalid" THEN settleCall(S1, c, Out(kind, 0))
             ELSE sendMessage(S1, c)

\* MCPHandler.handle(request) up to its first suspension.
handle(S, c, rid, kind) ==
  LET S0 == [S EXCEPT !.callKind[c] = kind, !.reqId[c] = rid,
                      !.suppliedId[c] = rid,
                      !.afterExit[c] = /\ S.process = 0
                                       /\ \E q \in Procs : S.procState[q] = "exited"]
  IN IF S.activeOperations >= maxConcurrentOperations
     THEN [S0 EXCEPT !.pc[c] = "done", !.settled[c] = Out("capacity", 0),
                     !.returned[c] = Return(rid, rid),
                     !.outcome[c] = Out("capacity", 0)]
     ELSE LET S1 == [S0 EXCEPT !.activeOperations = @ + 1]
          IN IF kind \in Invalid THEN settleCall(S1, c, Out(kind, 0))
             ELSE sendMessage(S1, c)

\* MCPHandler.initialize()
handlerInitialize(S, c) ==
  initialize([S EXCEPT !.callKind[c] = "initialize"], c)

\* ----------------------------------------------------------------- actions

\* The slot a new call takes: the least idle one (0 when none is idle).
FreeSlot ==
  IF \E c \in Calls : pc[c] = "idle"
  THEN CHOOSE c \in Calls : pc[c] = "idle" /\ \A d \in Calls : pc[d] = "idle" => c <= d
  ELSE 0

\* An HTTP POST /mcp reaches MCPHandler.handle.
Handle(c, rid, kind) ==
  /\ c = FreeSlot
  /\ Commit(handle(St, c, rid, kind))

\* A caller (the server at start-up) calls MCPHandler.initialize().
Initialize(c) ==
  /\ c = FreeSlot
  /\ Commit(handlerInitialize(St, c))

\* The 1 s start-up wait of a handshake closure ends: it sends initialize.
InitSend(a) ==
  /\ att[a] = "starting"
  /\ Due(St, Startup(a))
  /\ LET S0 == [St EXCEPT !.timers = SelectSeqNot(@, Startup(a))]
         S2 == registerAndWrite(S0, InitOwner(a), 0, "initialize")
         err == sendRawError(getProcess(St))
     IN Commit(IF S2.overflow THEN S2
               ELSE IF err # "" THEN attemptFail(S2, a, Out(err, 0))
               ELSE [S2 EXCEPT !.att[a] = "sent"])

\* The sequence s without its k-th element.
RemoveAt(s, k) == SubSeq(s, 1, k - 1) \o SubSeq(s, k + 1, Len(s))

\* The child answers the k-th unanswered line of its stdin and the bridge
\* reads the answer.  The child is "npx", the MCP server is a child of it
\* that shares the stdout pipe, and "exit" may be emitted while stdio is
\* still open, so an answer can arrive after kill() and after the exit event.
Deliver(p, k, isErr) ==
  /\ procState[p] \in {"running", "exited"}
  /\ k \in 1..Len(stdin[p])
  /\ Commit(handleMessage([St EXCEPT !.stdin[p] = RemoveAt(@, k),
                                     !.from = [p |-> p, kind |-> stdin[p][k].kind]],
                          stdin[p][k].id, isErr, stdin[p][k].owner))

\* A 30 s deadline timer fires.
Timeout(o) ==
  /\ Due(St, Deadline(o))
  /\ Commit(timeoutFired(St, o))

\* The child process exits.
ProcExit(p, code) ==
  /\ procState[p] = "running"
  /\ Commit(exitHandler(St, p, code))

\* The child's stdin pipe is destroyed (the child closed it or is going away).
StdinClose(p) ==
  /\ p = process
  /\ stdinOpen[p]
  /\ Commit([St EXCEPT !.stdinOpen[p] = FALSE])

\* The stdout pipe of an exited child closes: nothing more is read from it.
ProcClose(p) ==
  /\ procState[p] = "exited"
  /\ Commit([St EXCEPT !.procState[p] = "none", !.stdin[p] = <<>>,
                        !.proc = [a \in Attempts |-> IF @[a] = p THEN Gone ELSE @[a]]])

\* MCPHandler.cleanup() -> PlaywrightProcessManager.kill()
Kill ==
  /\ process # 0
  /\ Commit(kill(St))

Next ==
  \/ \E c \in Calls, rid \in ClientIds \cup {NoId} : Handle(c, rid, "forward")
  \/ \E c \in Calls, kind \in Invalid : Handle(c, NoId, kind)
  \/ \E c \in Calls : Initialize(c)
  \/ \E a \in Attempts : InitSend(a)
  \/ \E p \in Procs, k \in 1..(MaxCalls + MaxAttempts), e \in BOOLEAN :
        Deliver(p, k, e)
  \/ \E o \in Owners : Timeout(o)
  \/ \E p \in Procs, code \in ExitCodes : ProcExit(p, code)
  \/ \E p \in Procs : StdinClose(p)
  \/ \E p \in Procs : ProcClose(p)
  \/ Kill

Spec == Init /\ [][Next]_vars

\* ------------------------------------------------------- timers always fire

\* The tasks of requests, of the child and of kill() over a run in which
\* every armed timer fires in the end.
MaxEnvSteps == 3

\* The task of a timer leaves T; timers are not counted among the steps.
CommitTimer(T0) ==
  \E T \in {Recycle(T0)} :
  /\ ~T.overflow
  /\ Bridge(T)
  /\ UNCHANGED <<steps, lines, rd, buffer, handled, listeners, conn, sseLog, pubs>>
  /\ UNCHANGED httpVars
  /\ UNCHANGED elicitVars

\* The 1 s start-up wait of a handshake closure ends: it sends initialize.
StartupElapsed(a) ==
  /\ att[a] = "starting"
  /\ Due(St, Startup(a))
  /\ LET S0 == [St EXCEPT !.timers = SelectSeqNot(@, Startup(a))]
         S2 == registerAndWrite(S0, InitOwner(a), 0, "initialize")
         err == sendRawError(getProcess(St))
     IN CommitTimer(IF S2.overflow THEN S2
                    ELSE IF err # "" THEN attemptFail(S2, a, Out(err, 0))
                    ELSE [S2 EXCEPT !.att[a] = "sent"])

\* A 30 s deadline timer fires.
DeadlineElapsed(o) ==
  /\ Due(St, Deadline(o))
  /\ CommitTimer(timeoutFired(St, o))

StartupTimers == \E a \in Attempts : StartupElapsed(a)
DeadlineTimers == \E o \in Owners : DeadlineElapsed(o)

\* What the clients, the child and shutdown do, MaxEnvSteps times in all,
\* and the timers.
NextLive ==
  \/ \E c \in Calls, rid \in ClientIds \cup {NoId} :
        steps < MaxEnvSteps /\ Handle(c, rid, "forward")
  \/ \E c \in Calls, kind \in Invalid : steps < MaxEnvSteps /\ Handle(c, NoId, kind)
  \/ \E c \in Calls : steps < MaxEnvSteps /\ Initialize(c)
  \/ \E p \in Procs, k \in 1..(MaxCalls + MaxAttempts), e \in BOOLEAN :
        steps < MaxEnvSteps /\ Deliver(p, k, e)
  \/ \E p \in Procs, code \in ExitCodes : steps < MaxEnvSteps /\ ProcExit(p, code)
  \/ \E p \in Procs : steps < MaxEnvSteps /\ StdinClose(p)
  \/ \E p \in Procs : steps < MaxEnvSteps /\ ProcClose(p)
  \/ steps < MaxEnvSteps /\ Kill
  \/ StartupTimers
  \/ DeadlineTimers

\* A start-up wait, a deadline timer, is the next of its kind to fire: the
\* condition under which StartupTimers, DeadlineTimers, can take a step.
StartupDue == \E a \in Attempts : att[a] = "starting" /\ Due(St, Startup(a))
DeadlineDue == \E o \in Owners : Due(St, Deadline(o))

\* Node fires every armed timer once its delay has passed, whatever else
\* happens; nothing is assumed of the clients or of the child.  The two
\* conditions are WF_vars(StartupTimers) and WF_vars(DeadlineTimers) with
\* the enabling condition of each action written out.
SpecLive ==
  /\ Init /\ [][NextLive]_vars
  /\ []<>(~StartupDue) \/ []<><<StartupTimers>>_vars
  /\ []<>(~DeadlineDue) \/ []<><<DeadlineTimers>>_vars

\* ------------------------------------------------- stdout framing, fan-out

\* The child's output is a sequence of bytes.  Each ASCII byte stands for one
\* token of a single-line JSON text: "{" and "}" delimit an object, "m" is a
\* "method" member, "e" an "error" member, a digit an "id" member with that
\* value, "n" the text null, "x" a byte of log output, "sp" a blank and "nl"
\* the newline.  "C3" "A9" is the two-byte UTF-8 encoding of one character
\* of a string member.
Ascii == {"{", "}", "m", "e", "0", "1", "n", "x", "sp", "nl"}

\* Buffer.toString(): UTF-8 decoding of one chunk.  A byte sequence that is
\* incomplete or invalid within the chunk decodes to U+FFFD.
RECURSIVE toString(_)
toString(data) ==
  IF data = <<>> THEN <<>>
  ELSE IF Head(data) = "C3" /\ Len(data) >= 2 /\ data[2] = "A9"
       THEN <<"U+00E9">> \o toString(SubSeq(data, 3, Len(data)))
  ELSE IF Head(data) \in Ascii THEN <<Head(data)>> \o toString(Tail(data))
  ELSE <<"U+FFFD">> \o toString(Tail(data))

\* String.prototype.split("\n"): never empty, the last element is what
\* follows the last newline.
RECURSIVE split(_)
split(str) ==
  IF \A k \in 1..Len(str) : str[k] # "nl" THEN <<str>>
  ELSE LET k == CHOOSE i \in 1..Len(str) :
                   /\ str[i] = "nl"
                   /\ \A j \in 1..(i - 1) : str[j] # "nl"
       IN <<SubSeq(str, 1, k - 1)>> \o split(SubSeq(str, k + 1, Len(str)))

\* String.prototype.trim()
RECURSIVE trim(_)
trim(str) ==
  IF str = <<>> THEN str
  ELSE IF Head(str) = "sp" THEN trim(Tail(str))
  ELSE IF str[Len(str)] = "sp" THEN trim(SubSeq(str, 1, Len(str) - 1))
  ELSE str

\* A parsed message: null, or an object with
\* its id (NoId: undefined), whether it has a method and an error member, and
\* the characters of its string member.
Message(isNull, id, method, error, text) ==
  [null |-> isNull, id |-> id, method |-> method, error |-> error, text |-> text]
Null == Message(TRUE, NoId, FALSE, FALSE, <<>>)

MemberChars == {"m", "e", "0", "1", "U+00E9", "U+FFFD"}

\* JSON.parse(text): ok is FALSE where it throws a SyntaxError.  Blanks
\* around the value are allowed; a member may not occur twice in the texts
\* modelled.
JSONparse(text) ==
  LET t == trim(text)
      inner == SubSeq(t, 2, Len(t) - 1)
      Count(ch) == Cardinality({k \in 1..Len(inner) : inner[k] = ch})
      isObject == /\ Len(t) >= 2
                  /\ t[1] = "{"
                  /\ t[Len(t)] = "}"
                  /\ \A k \in 1..Len(inner) : inner[k] \in MemberChars
                  /\ Count("m") <= 1
                  /\ Count("e") <= 1
                  /\ Count("0") + Count("1") <= 1
  IN IF t = <<"n">> THEN [ok |-> TRUE, value |-> Null]
     ELSE IF ~isObject THEN [ok |-> FALSE, value |-> Null]
     ELSE [ok |-> TRUE,
           value |-> Message(FALSE,
                             IF Count("0") = 1 THEN 0
                             ELSE IF Count("1") = 1 THEN 1 ELSE NoId,
                             Count("m") = 1, Count("e") = 1,
                             SelectSeq(inner, LAMBDA ch : ch \in {"U+00E9", "U+FFFD"}))]

\* cleanup() of the GET /mcp handler of connection k: removeListener, and
\* res.end() unless the response has ended.
cleanup(S, k) ==
  [S EXCEPT !.listeners = SelectSeqNot(@, k),
            !.conn[k] = IF @ = "open" THEN "ended" ELSE @]

\* notificationHandler of connection k without its try/catch: the exception
\* of res.write leaves the handler.
notificationHandlerNoCatch(S, k, n) ==
  IF k \in S.failing THEN [S EXCEPT !.thrown = TRUE]
  ELSE [S EXCEPT !.sseLog = Append(@, [conn |-> k, n |-> n])]

\* notificationHandler of connection k for the n-th publication: res.write,
\* and cleanup() when it throws.
notificationHandler(S, k, n) ==
  IF k \in S.failing THEN cleanup(S, k)
  ELSE [S EXCEPT !.sseLog = Append(@, [conn |-> k, n |-> n])]

\* emit with the listeners called last registered first.
RECURSIVE callListenersReversed(_, _, _)
callListenersReversed(S, ls, n) ==
  IF ls = <<>> \/ S.thrown THEN S
  ELSE callListenersReversed(notificationHandler(S, ls[Len(ls)], n),
                             SubSeq(ls, 1, Len(ls) - 1), n)

\* EventEmitter.emit calls the listeners registered when it began, in the
\* order they were registered; an exception of one ends it.
RECURSIVE callListeners(_, _, _)
callListeners(S, ls, n) ==
  IF ls = <<>> \/ S.thrown THEN S
  ELSE callListeners(notificationHandler(S, Head(ls), n), Tail(ls), n)

\* processManager.emit("notification", message): the listener MCPHandler
\* registered emits it again on mcpHandler, to the SSE listeners.
emit(S, message) ==
  LET entry == [subs |-> S.listeners,
                failed |-> {k \in S.failing :
                              \E j \in 1..Len(S.listeners) : S.listeners[j] = k}]
  IN callListeners([S EXCEPT !.pubs = Append(@, entry)], S.listeners,
                   Len(S.pubs) + 1)

\* handleMessage without the return that ends its first branch: a message
\* that was handled as a response goes on to the test of message.method.
handleParsedFallsThrough(S, message) ==
  IF message.null THEN [S EXCEPT !.thrown = TRUE]
  ELSE LET S1 == IF message.id # NoId /\ S.pendingMessages[message.id] # None
                 THEN handleMessage(S, message.id, message.error,
                                    S.pendingMessages[message.id])
                 ELSE S
       IN IF message.method THEN emit(S1, message) ELSE S1

\* handleMessage(message) as a whole: a response to a record of the table,
\* else a notification, else nothing.  Reading message.id of null throws.
handleParsed(S, message) ==
  IF message.null THEN [S EXCEPT !.thrown = TRUE]
  ELSE IF message.id # NoId /\ S.pendingMessages[message.id] # None
       THEN handleMessage(S, message.id, message.error,
                          S.pendingMessages[message.id])
  ELSE IF message.method THEN emit(S, message)
  ELSE S

\* The loop of processBuffer taking the complete lines last first.
RECURSIVE processLinesReversed(_, _)
processLinesReversed(S, ls) ==
  IF ls = <<>> THEN S
  ELSE LET trimmed == trim(ls[Len(ls)])
           parsed == JSONparse(trimmed)
           S1 == IF trimmed = <<>> \/ ~parsed.ok THEN S
                 ELSE [handleParsed([S EXCEPT !.handled = Append(@, parsed.value)],
                                    parsed.value)
                         EXCEPT !.thrown = FALSE]
       IN processLinesReversed(S1, SubSeq(ls, 1, Len(ls) - 1))

\* The loop of processBuffer over the complete lines; the catch block ends
\* whatever exception JSON.parse or handleMessage raised.
RECURSIVE processLines(_, _)
processLines(S, ls) ==
  IF ls = <<>> THEN S
  ELSE LET trimmed == trim(Head(ls))
           parsed == JSONparse(trimmed)
           S1 == IF trimmed = <<>> \/ ~parsed.ok THEN S
                 ELSE [handleParsed([S EXCEPT !.handled = Append(@, parsed.value)],
                                    parsed.value)
                         EXCEPT !.thrown = FALSE]
       IN processLines(S1, Tail(ls))

\* The loop without try/catch: the first exception ends it.
RECURSIVE processLinesNoCatch(_, _)
processLinesNoCatch(S, ls) ==
  IF ls = <<>> THEN S
  ELSE LET trimmed == trim(Head(ls))
           parsed == JSONparse(trimmed)
       IN IF trimmed = <<>> THEN processLinesNoCatch(S, Tail(ls))
          ELSE IF ~parsed.ok THEN S
          ELSE LET S1 == handleParsed([S EXCEPT !.handled = Append(@, parsed.value)],
                                      parsed.value)
               IN IF S1.thrown THEN [S1 EXCEPT !.thrown = FALSE]
                  ELSE processLinesNoCatch(S1, Tail(ls))

\* processBuffer without the try/catch around JSON.parse and handleMessage.
processBufferNoCatch(S) ==
  LET parts == split(S.buffer)
  IN processLinesNoCatch([S EXCEPT !.buffer = parts[Len(parts)]],
                         SubSeq(parts, 1, Len(parts) - 1))

\* processBuffer(): split, keep what follows the last newline, handle the
\* lines before it.
processBuffer(S) ==
  LET parts == split(S.buffer)
  IN processLines([S EXCEPT !.buffer = parts[Len(parts)]],
                  SubSeq(parts, 1, Len(parts) - 1))

\* proc.stdout.on("data"): this.buffer += data.toString(); processBuffer()
stdoutData(S, data) ==
  processBuffer([S EXCEPT !.buffer = @ \o toString(data)])

\* The task of a stdout or SSE event leaves T: the fields of the bridge and
\* of the fan-out take its values.
CommitInbound(T0) ==
  \E T \in {Recycle(T0)} :
  /\ Bridge(T)
  /\ buffer' = T.buffer
  /\ handled' = T.handled
  /\ listeners' = T.listeners
  /\ conn' = T.conn
  /\ sseLog' = T.sseLog
  /\ pubs' = T.pubs
  /\ UNCHANGED <<steps, lines>>
  /\ UNCHANGED httpVars
  /\ UNCHANGED elicitVars

\* A bridge that has started child 1, completed the handshake with it and
\* forwarded one request, which it wrote under id 1 and which is unanswered.
Forwarded ==
  /\ process = 1
  /\ procState = [p \in Procs |-> IF p = 1 THEN "running" ELSE "none"]
  /\ killed = [p \in Procs |-> FALSE]
  /\ stdinOpen = [p \in Procs |-> TRUE]
  /\ ready = [p \in Procs |-> p = 1]
  /\ stdin = [p \in Procs |->
                IF p = 1 THEN <<[kind |-> "request", owner |-> 1, id |-> 1]>>
                ELSE <<>>]
  /\ pendingMessages = [i \in IdSpace |-> IF i = 1 THEN 1 ELSE None]
  /\ timers = <<Deadline(1)>>
  /\ messageIdCounter = 1
  /\ isInitialized = TRUE
  /\ initPromise = 0
  /\ att = [a \in Attempts |-> "unused"]
  /\ waiters = [a \in Attempts |-> <<>>]
  /\ proc = [a \in Attempts |-> 0]
  /\ activeOperations = 1
  /\ pc = [c \in Calls |-> IF c = 1 THEN "waitResp" ELSE "idle"]
  /\ callKind = [c \in Calls |-> "forward"]
  /\ reqId = [c \in Calls |-> IF c = 1 THEN 1 ELSE NoId]
  /\ outcome = [c \in Calls |-> NoOutcome]
  /\ afterExit = [c \in Calls |-> FALSE]
  /\ suppliedId = [c \in Calls |-> NoId]
  /\ returned = [c \in Calls |-> NoReturn]

\* The lines a child may write: single-line JSON texts (a notification, one
\* with a non-ASCII string member, one with a blank before it, the answer to
\* the request forwarded, an answer to an id the table does not hold, null)
\* and lines that are not JSON (log output, a truncated object, a blank line).
Docs ==
  { <<"{", "m", "}">>, <<"{", "m", "C3", "A9", "}">>, <<"sp", "{", "m", "}">>,
    <<"{", "1", "}">>, <<"{", "0", "}">>, <<"n">> }
Noise == { <<"x">>, <<"{", "m">>, <<"sp">> }
MaxLines == 3
LineSeqs(set) == UNION {[1..n -> set] : n \in 1..MaxLines}

\* The bytes of the lines ls, each ended by a newline.
RECURSIVE Stream(_)
Stream(ls) == IF ls = <<>> THEN <<>> ELSE Head(ls) \o <<"nl">> \o Stream(Tail(ls))

InitFraming ==
  /\ Forwarded
  /\ steps = 0
  /\ settled = [o \in Owners |-> NoOutcome]
  /\ delivered = <<>>
  /\ lines \in LineSeqs(Docs \cup Noise)
  /\ rd = 0
  /\ buffer = <<>>
  /\ handled = <<>>
  /\ listeners = <<>>
  /\ conn = [k \in Conns |-> "none"]
  /\ sseLog = <<>>
  /\ pubs = <<>>
  /\ NoHttp
  /\ NoElicitation

\* The bridge reads the next n bytes of the child's output as one chunk.
Data(n) ==
  /\ rd + n <= Len(Stream(lines))
  /\ rd' = rd + n
  /\ CommitInbound(stdoutData(St, SubSeq(Stream(lines), rd + 1, rd + n)))

NextFraming == \E n \in 1..Len(Stream(lines)) : Data(n)

SpecFraming == InitFraming /\ [][NextFraming]_vars

\* The handler of GET /mcp for connection k, reached with an Accept header
\* naming text/event-stream: it writes the opening events and registers
\* notificationHandler.  The connection is open unless the client has left.
getMcp(S, k) ==
  [S EXCEPT !.listeners = Append(@, k),
            !.conn[k] = IF @ = "none" THEN "open" ELSE @]

\* The child writes MaxLines notifications.
InitNotify ==
  /\ Forwarded
  /\ steps = 0
  /\ settled = [o \in Owners |-> NoOutcome]
  /\ delivered = <<>>
  /\ lines = [i \in 1..MaxLines |-> <<"{", "m", "}">>]
  /\ rd = 0
  /\ buffer = <<>>
  /\ handled = <<>>
  /\ listeners = <<>>
  /\ conn = [k \in Conns |-> "none"]
  /\ sseLog = <<>>
  /\ pubs = <<>>
  /\ NoHttp
  /\ NoElicitation

\* A client opens an SSE connection and the request reaches the handler.
SseOpen(k) ==
  /\ conn[k] = "none"
  /\ \A j \in Conns : j < k => conn[j] # "none"
  /\ UNCHANGED rd
  /\ CommitInbound(getMcp(St, k))

\* req.on("aborted"): the client went away.
ReqAborted(k) ==
  /\ conn[k] \in {"open", "ended"}
  /\ UNCHANGED rd
  /\ CommitInbound([cleanup(St, k) EXCEPT !.conn[k] = "aborted"])

\* req.on("close"), after the client went away or after res.end().
ReqClose(k) ==
  /\ conn[k] \in {"open", "ended", "aborted"}
  /\ UNCHANGED rd
  /\ CommitInbound([cleanup(St, k) EXCEPT !.conn[k] = "closed"])

\* The ping interval of connection k fires and res.write throws.
PingFails(k) ==
  /\ conn[k] = "open"
  /\ UNCHANGED rd
  /\ CommitInbound(cleanup(St, k))

\* The bridge reads the next j lines of the child's output as one chunk,
\* while res.write of the connections in fail throws.
DataLines(j, fail) ==
  LET n == Len(Stream(SubSeq(lines, 1, Len(handled) + j))) - rd
  IN /\ Len(handled) + j <= Len(lines)
     /\ fail \subseteq {k \in Conns : conn[k] = "open"}
     /\ rd' = rd + n
     /\ CommitInbound(stdoutData([St EXCEPT !.failing = fail],
                                 SubSeq(Stream(lines), rd + 1, rd + n)))

NextNotify ==
  \/ \E k \in Conns : SseOpen(k)
  \/ \E k \in Conns : ReqAborted(k)
  \/ \E k \in Conns : ReqClose(k)
  \/ \E k \in Conns : PingFails(k)
  \/ \E j \in 1..2, fail \in SUBSET Conns : DataLines(j, fail)

SpecNotify == InitNotify /\ [][NextNotify]_vars

\* ------------------------------------------------------ inbound messages

\* The JSON texts of the messages a child may write: an object with or
\* without an id (0 or 1), a method and an error member, and null.
InboundDocs ==
  { <<"{">> \o id \o m \o e \o <<"}">> :
      id \in {<<>>, <<"0">>, <<"1">>}, m \in {<<>>, <<"m">>}, e \in {<<>>, <<"e">>} }
  \cup { <<"n">> }

\* One request is forwarded and unanswered, and the child writes up to
\* MaxInbound messages.
MaxInbound == 2

InitInbound ==
  /\ Forwarded
  /\ steps = 0
  /\ settled = [o \in Owners |-> NoOutcome]
  /\ delivered = <<>>
  /\ lines \in UNION {[1..n -> InboundDocs] : n \in 1..MaxInbound}
  /\ rd = 0
  /\ buffer = <<>>
  /\ handled = <<>>
  /\ listeners = <<>>
  /\ conn = [k \in Conns |-> "none"]
  /\ sseLog = <<>>
  /\ pubs = <<>>
  /\ NoHttp
  /\ NoElicitation

\* An HTTP POST /mcp reaches MCPHandler.handle.
Arrives(c, rid) ==
  /\ c = FreeSlot
  /\ ~handle(St, c, rid, "forward").overflow
  /\ UNCHANGED rd
  /\ CommitInbound(handle(St, c, rid, "forward"))

\* Requests arrive, SSE connections open, and the bridge reads the child's
\* output in chunks of one or more whole lines.
NextInbound ==
  \/ \E c \in Calls, rid \in ClientIds \cup {NoId} : Arrives(c, rid)
  \/ \E k \in Conns : SseOpen(k)
  \/ \E j \in 1..MaxInbound : DataLines(j, {})

SpecInbound == InitInbound /\ [][NextInbound]_vars

\* ------------------------------------------------------- a child replaced

\* In this specification lines is the output of the current child, and rd
\* the number of its bytes the bridge has read.  The lines a child may
\* write here are ASCII: a notification, the answer to a request, log output.
RestartDocs == { <<"{", "m", "}">>, <<"{", "1", "}">>, <<"x">> }

InitRestart ==
  /\ Forwarded
  /\ steps = 0
  /\ settled = [o \in Owners |-> NoOutcome]
  /\ delivered = <<>>
  /\ lines \in LineSeqs(RestartDocs)
  /\ rd = 0
  /\ buffer = <<>>
  /\ handled = <<>>
  /\ listeners = <<>>
  /\ conn = [k \in Conns |-> "none"]
  /\ sseLog = <<>>
  /\ pubs = <<>>
  /\ NoHttp
  /\ NoElicitation

\* The task leaves T, and from now on the current child's output is out,
\* none of it read.
CommitRestart(T0, out) ==
  \E T \in {Recycle(T0)} :
  /\ ~T.overflow
  /\ Bridge(T)
  /\ buffer' = T.buffer
  /\ handled' = T.handled
  /\ listeners' = T.listeners
  /\ conn' = T.conn
  /\ sseLog' = T.sseLog
  /\ pubs' = T.pubs
  /\ lines' = out
  /\ rd' = 0
  /\ UNCHANGED steps
  /\ UNCHANGED httpVars
  /\ UNCHANGED elicitVars

\* The current child exits, having written what the bridge has read of its
\* output and nothing more: possibly an incomplete last line.
ChildExit(code) ==
  /\ process # 0
  /\ procState[process] = "running"
  /\ CommitRestart(exitHandler(St, process, code), <<>>)

\* A request reaches MCPHandler.handle while there is no child: the
\* handshake closure it starts spawns one, whose output will be out.
Restart(c, out) ==
  /\ c = FreeSlot
  /\ process = 0
  /\ handle(St, c, NoId, "forward").process # 0
  /\ CommitRestart(handle(St, c, NoId, "forward"), out)

NextRestart ==
  \/ \E n \in 1..Len(Stream(lines)) : Data(n)
  \/ \E code \in ExitCodes : ChildExit(code)
  \/ \E c \in Calls, out \in LineSeqs(RestartDocs) : Restart(c, out)

SpecRestart == InitRestart /\ [][NextRestart]_vars

\* --------------------------------------------------------------- HTTP layer

\* The token of AUTH_TOKEN, or the one Secret Manager holds.
ExpectedToken == <<"a", "b">>

\* loadConfig(): authentication is enabled when either variable is set.
enableAuth == config.authToken # <<>> \/ config.authSecretName

\* Authorization headers, as characters; "Bearer" and "Basic" stand for
\* those words, "sp" for a blank, <<>> for no header.
Headers ==
  { <<>>, <<"Bearer", "sp", "a", "b">>, <<"Bearer", "sp", "a", "a">>,
    <<"Bearer", "sp", "a">>, <<"Bearer", "sp", "sp", "a", "b">>,
    <<"Basic", "sp", "a", "b">>, <<"a", "b">>, <<"Bearer", "sp">> }

\* Request bodies: whether jsonrpc is "2.0", the method, and params (absent,
\* or with the tool name and the kind of params.arguments.url: "none" when
\* absent, "ok" when isValidUrl accepts it, "bad" when it does not).
NoParams == [present |-> FALSE, name |-> "", url |-> "none"]
Params(name, url) == [present |-> TRUE, name |-> name, url |-> url]
Body(jsonrpc, method, params) ==
  [jsonrpc |-> jsonrpc, method |-> method, params |-> params]
NoBody == Body(FALSE, "", NoParams)
Bodies ==
  { Body(TRUE, "ping", NoParams), Body(FALSE, "ping", NoParams),
    Body(TRUE, "", NoParams),
    Body(TRUE, "tools/call", NoParams),
    Body(TRUE, "tools/call", Params("", "none")),
    Body(TRUE, "tools/call", Params("browser_navigate", "bad")),
    Body(TRUE, "tools/call", Params("browser_navigate", "ok")) }

Response(status, code, message, data) ==
  [status |-> status, code |-> code, message |-> message, data |-> data]

\* String.prototype.split(sep)
RECURSIVE splitOn(_, _)
splitOn(str, sep) ==
  IF \A k \in 1..Len(str) : str[k] # sep THEN <<str>>
  ELSE LET k == CHOOSE i \in 1..Len(str) :
                   /\ str[i] = sep
                   /\ \A j \in 1..(i - 1) : str[j] # sep
       IN <<SubSeq(str, 1, k - 1)>> \o splitOn(SubSeq(str, k + 1, Len(str)), sep)

\* constantTimeCompare with the loop over the characters left out.
constantTimeCompareLengthOnly(a, b) == Len(a) = Len(b)

\* constantTimeCompare(a, b): equal lengths, and the OR of the XORs of the
\* characters' codes is 0, which is so when no position differs.
constantTimeCompare(a, b) ==
  /\ Len(a) = Len(b)
  /\ {i \in 1..Len(a) : a[i] # b[i]} = {}

\* validateToolArgs(tool, args, allowedDomains)
validateToolArgs(tool, url) ==
  IF tool \in {"browser_navigate", "browser_navigate_to"}
  THEN IF url = "none"
       THEN [isValid |-> FALSE, error |-> "browser_navigate requires a 'url' string argument"]
       ELSE IF url = "bad"
       THEN [isValid |-> FALSE, error |-> "Invalid or disallowed URL"]
       ELSE [isValid |-> TRUE, error |-> ""]
  ELSE [isValid |-> TRUE, error |-> ""]

\* The body MCPHandler.handle returns, or the route answers with, for a call
\* that settled with out, without error.data.
responseOfNoData(out) ==
  IF out.kind = "result" THEN Response(200, 0, "", "")
  ELSE IF out.kind \in Invalid THEN Response(200, -32600, "Invalid Request", "")
  ELSE Response(200, -32603, "Internal Error", "")

\* The body MCPHandler.handle returns for a call that settled with out
\* (errorResponse, or the catch block of ToolInterceptor.handle with
\* error.message as data); res.json sends it with status 200.
responseOf(out) ==
  IF out.kind = "result" THEN Response(200, 0, "", "")
  ELSE IF out.kind = "invalid"
       THEN Response(200, -32600, "Invalid Request", "jsonrpc must be '2.0'")
  ELSE IF out.kind = "noMethod"
       THEN Response(200, -32600, "Invalid Request", "method is required")
  ELSE Response(200, -32603, "Internal Error",
                CASE out.kind = "capacity" ->
                       "Maximum concurrent browser operations reached. Please try again later."
                  [] out.kind = "timeout" -> "Request timeout"
                  [] out.kind = "exited" -> "Process exited before response"
                  [] out.kind = "notRunning" -> "Process is not running"
                  [] out.kind = "stdinUnavailable" -> "Process stdin is not available"
                  [] OTHER -> "message.error.message")

\* A middleware answers request r itself.
reject(S, r, by, response) ==
  [S EXCEPT !.http[r].pos = "done", !.http[r].rejectedBy = by,
            !.http[r].response = response]

\* The checks MCPHandler.handle makes of a request, in their order:
\* request.jsonrpc !== "2.0", then !request.method.
requestKind(body) ==
  IF ~body.jsonrpc THEN "invalid"
  ELSE IF body.method = "" THEN "noMethod"
  ELSE "forward"

\* The handler of POST /mcp up to its first suspension: mcpHandler.handle.
postMcp(S, r) ==
  LET idle == {c \in Calls : S.pc[c] = "idle"}
      c == CHOOSE d \in idle : \A e \in idle : d <= e
      S0 == [S EXCEPT !.http[r].reached = TRUE, !.http[r].pos = "handler",
                      !.http[r].call = c]
  IN IF idle = {} THEN [S EXCEPT !.overflow = TRUE]
     ELSE handle(S0, c, NoId, requestKind(S.http[r].body))

\* The handler of GET /mcp.
getMcpRoute(S, r) ==
  getMcp([S EXCEPT !.http[r].reached = TRUE, !.http[r].pos = "handler"], r)

\* requestValidationMiddleware with the returns after the 400 answers left
\* out, so that next() runs all the same.
requestValidationFallsThrough(S, r) ==
  LET b == S.http[r].body
      v == validateToolArgs(b.params.name, b.params.url)
      S1 == postMcp(S, r)
  IN IF b.method = "tools/call" /\ b.params.present /\ (b.params.name = "" \/ ~v.isValid)
     THEN [S1 EXCEPT !.http[r].rejectedBy = "validation",
                     !.http[r].response = Response(400, -32602, "Invalid Params", v.error)]
     ELSE S1

\* requestValidationMiddleware for POST /mcp, then the handler.
requestValidationMiddleware(S, r) ==
  LET b == S.http[r].body
      v == validateToolArgs(b.params.name, b.params.url)
  IN IF b.method = "tools/call" /\ b.params.present
     THEN IF b.params.name = ""
          THEN reject(S, r, "validation",
                      Response(400, -32602, "Invalid Params",
                               "tools/call requires a 'name' parameter"))
          ELSE IF ~v.isValid
          THEN reject(S, r, "validation",
                      Response(400, -32602, "Invalid Params", v.error))
          ELSE postMcp(S, r)
     ELSE postMcp(S, r)

\* next() of authMiddleware: the rest of the route.
next(S, r) ==
  IF S.http[r].verb = "POST" THEN requestValidationMiddleware(S, r)
  ELSE getMcpRoute(S, r)

\* authMiddleware after await getCachedAuthToken(config) gave expected.
authResume(S, r, expected) ==
  LET providedToken == splitOn(S.http[r].auth, "sp")[2]
  IN IF expected.k # "string" \/ expected.v = <<>>
     THEN reject(S, r, "auth",
                 Response(500, -32603, "Internal Error",
                          "Authentication not properly configured"))
     ELSE IF ~constantTimeCompare(providedToken, expected.v)
     THEN reject(S, r, "auth", Response(401, -32001, "Unauthorized", "Invalid token"))
     ELSE next(S, r)

\* getAuthToken(config) is called: one more load, unsettled.
getAuthToken(S) ==
  [S EXCEPT !.tokenLoads = [started |-> @.started + 1, pending |-> @.pending + 1]]

\* authMiddleware whose getCachedAuthToken does not look at tokenPromise
\* before it calls getAuthToken.
authMiddlewareReloads(S, r) ==
  LET parts == splitOn(S.http[r].auth, "sp")
  IN IF ~enableAuth THEN next(S, r)
     ELSE IF S.http[r].auth = <<>>
     THEN reject(S, r, "auth",
                 Response(401, -32001, "Unauthorized", "Missing Authorization header"))
     ELSE IF Len(parts) # 2 \/ parts[1] # <<"Bearer">>
     THEN reject(S, r, "auth",
                 Response(401, -32001, "Unauthorized",
                          "Invalid Authorization header format. Expected: Bearer <token>"))
     ELSE IF S.cachedToken.k # "null" THEN authResume(S, r, S.cachedToken)
     ELSE IF S.tokenPromise = "null" /\ config.authToken # <<>>
     THEN authResume([getAuthToken(S) EXCEPT
                         !.tokenLoads.pending = @ - 1,
                         !.cachedToken = TokenString(config.authToken)], r,
                     TokenString(config.authToken))
     ELSE [getAuthToken(S) EXCEPT !.tokenPromise = "pending",
                                  !.awaiting = Append(@, r)]

\* authMiddleware up to its first suspension.  getAuthToken returns
\* config.authToken at once when it is set; otherwise it asks Secret Manager
\* and the request waits for tokenPromise.
authMiddleware(S, r) ==
  LET parts == splitOn(S.http[r].auth, "sp")
  IN IF ~enableAuth THEN next(S, r)
     ELSE IF S.http[r].auth = <<>>
     THEN reject(S, r, "auth",
                 Response(401, -32001, "Unauthorized", "Missing Authorization header"))
     ELSE IF Len(parts) # 2 \/ parts[1] # <<"Bearer">>
     THEN reject(S, r, "auth",
                 Response(401, -32001, "Unauthorized",
                          "Invalid Authorization header format. Expected: Bearer <token>"))
     ELSE IF S.cachedToken.k # "null" THEN authResume(S, r, S.cachedToken)
     ELSE IF S.tokenPromise = "null" /\ config.authToken # <<>>
     THEN authResume([getAuthToken(S) EXCEPT
                         !.tokenLoads.pending = @ - 1,
                         !.cachedToken = TokenString(config.authToken)], r,
                     TokenString(config.authToken))
     ELSE IF S.tokenPromise = "null"
     THEN [getAuthToken(S) EXCEPT !.tokenPromise = "pending",
                                  !.awaiting = Append(@, r)]
     ELSE [S EXCEPT !.awaiting = Append(@, r)]

\* tokenPromise settles with result: the requests waiting for it go on, in
\* the order they began to wait.
RECURSIVE resumeAll(_, _, _)
resumeAll(S, rs, result) ==
  IF rs = <<>> THEN S
  ELSE resumeAll(IF result.k = "error"
                 THEN reject(S, Head(rs), "auth",
                             Response(500, -32603, "Internal Error",
                                      "Failed to load authentication token from Secret Manager"))
                 ELSE authResume(S, Head(rs), result),
                 Tail(rs), result)

\* The then and catch callbacks of getCachedAuthToken.
tokenSettled(S, result) ==
  [S EXCEPT !.tokenPromise = "null", !.awaiting = <<>>,
            !.tokenLoads.pending = @ - 1,
            !.cachedToken = IF result.k = "error" THEN @ ELSE result]

\* res.json(response) of the POST handler for every call the task settled.
respondSettled(S) ==
  [S EXCEPT !.http =
     [r \in Conns |->
        IF S.http[r].call # 0 /\ S.settled[S.http[r].call].kind # "none"
        THEN [S.http[r] EXCEPT !.call = 0, !.pos = "done",
                               !.cause = S.settled[S.http[r].call].kind,
                               !.response = responseOf(S.settled[S.http[r].call])]
        ELSE S.http[r]]]

\* The task of an HTTP or bridge event leaves T.
CommitHttp(T0) ==
  \E T \in {Recycle(respondSettled(T0))} :
  /\ ~T.overflow
  /\ Bridge(T)
  /\ listeners' = T.listeners
  /\ conn' = T.conn
  /\ cachedToken' = T.cachedToken
  /\ tokenPromise' = T.tokenPromise
  /\ tokenLoads' = T.tokenLoads
  /\ awaiting' = T.awaiting
  /\ http' = T.http
  /\ UNCHANGED <<steps, config, lines, rd, buffer, handled, sseLog, pubs>>
  /\ UNCHANGED elicitVars

\* The bridge after the server's start-up: child 1 runs and the handshake
\* with it is complete.
Started ==
  /\ process = 1
  /\ procState = [p \in Procs |-> IF p = 1 THEN "running" ELSE "none"]
  /\ killed = [p \in Procs |-> FALSE]
  /\ stdinOpen = [p \in Procs |-> TRUE]
  /\ ready = [p \in Procs |-> p = 1]
  /\ stdin = [p \in Procs |-> <<>>]
  /\ pendingMessages = [i \in IdSpace |-> None]
  /\ timers = <<>>
  /\ messageIdCounter = 0
  /\ isInitialized = TRUE
  /\ initPromise = 0
  /\ att = [a \in Attempts |-> "unused"]
  /\ waiters = [a \in Attempts |-> <<>>]
  /\ proc = [a \in Attempts |-> 0]
  /\ activeOperations = 0
  /\ pc = [c \in Calls |-> "idle"]
  /\ callKind = [c \in Calls |-> "forward"]
  /\ reqId = [c \in Calls |-> NoId]
  /\ outcome = [c \in Calls |-> NoOutcome]
  /\ afterExit = [c \in Calls |-> FALSE]
  /\ suppliedId = [c \in Calls |-> NoId]
  /\ returned = [c \in Calls |-> NoReturn]

\* The server right after start-up under any configuration, or later, with
\* one request forwarded, which the token was loaded for if one is needed.
InitHttp ==
  /\ config \in [authToken : {<<>>, ExpectedToken}, authSecretName : BOOLEAN]
  /\ \/ Started /\ cachedToken = TokenNull
     \/ Forwarded /\ cachedToken = IF enableAuth THEN TokenString(ExpectedToken)
                                   ELSE TokenNull
  /\ tokenPromise = "null"
  /\ tokenLoads = [started |-> 0, pending |-> 0]
  /\ awaiting = <<>>
  /\ http = [r \in Conns |-> NoRequest]
  /\ steps = 0
  /\ settled = [o \in Owners |-> NoOutcome]
  /\ delivered = <<>>
  /\ lines = <<>>
  /\ rd = 0
  /\ buffer = <<>>
  /\ handled = <<>>
  /\ listeners = <<>>
  /\ conn = [k \in Conns |-> "none"]
  /\ sseLog = <<>>
  /\ pubs = <<>>
  /\ NoElicitation

\* Request r arrives at /mcp and runs the route up to its first suspension.
Request(r, verb, auth, body) ==
  /\ http[r].pos = "none"
  /\ \A j \in Conns : j < r => http[j].pos # "none"
  /\ verb = "GET" => body = NoBody
  /\ CommitHttp(authMiddleware(
        [St EXCEPT !.http[r] = [NoRequest EXCEPT !.verb = verb, !.auth = auth,
                                                 !.body = body, !.pos = "auth"]], r))

\* Secret Manager answers, or fails, or no project is configured.
SecretLoaded(result) ==
  /\ tokenPromise = "pending"
  /\ CommitHttp(resumeAll(tokenSettled(St, result), awaiting, result))

\* The client of a GET request leaves while the request waits for the
\* token: req emits "close", which nothing listens to yet.
ClientGone(r) ==
  /\ http[r].verb = "GET"
  /\ http[r].pos = "auth"
  /\ conn[r] = "none"
  /\ CommitHttp([St EXCEPT !.conn[r] = "closed"])

\* The client of an open SSE connection leaves: req.on("close").
SseClose(r) ==
  /\ conn[r] \in {"open", "ended"}
  /\ CommitHttp([cleanup(St, r) EXCEPT !.conn[r] = "closed"])

\* The deadline timer of a forwarded request fires.
HttpTimeout(o) ==
  /\ Due(St, Deadline(o))
  /\ CommitHttp(timeoutFired(St, o))

\* The child answers the k-th unanswered request.
HttpAnswer(p, k, isErr) ==
  /\ procState[p] = "running"
  /\ k \in 1..Len(stdin[p])
  /\ CommitHttp(handleMessage([St EXCEPT !.stdin[p] = RemoveAt(@, k),
                                         !.from = [p |-> p, kind |-> stdin[p][k].kind]],
                              stdin[p][k].id, isErr, stdin[p][k].owner))

\* The child exits.
HttpExit(p, code) ==
  /\ procState[p] = "running"
  /\ CommitHttp(exitHandler(St, p, code))

NextHttp ==
  \/ \E r \in Conns, auth \in Headers : Request(r, "GET", auth, NoBody)
  \/ \E r \in Conns, auth \in Headers, body \in Bodies : Request(r, "POST", auth, body)
  \/ \E result \in {TokenString(ExpectedToken), TokenUndefined,
                    [k |-> "error", v |-> <<>>]} : SecretLoaded(result)
  \/ \E r \in Conns : ClientGone(r)
  \/ \E r \in Conns : SseClose(r)
  \/ \E o \in Owners : HttpTimeout(o)
  \/ \E p \in Procs, k \in 1..MaxCalls, e \in BOOLEAN : HttpAnswer(p, k, e)
  \/ \E p \in Procs, code \in ExitCodes : HttpExit(p, code)

SpecHttp == InitHttp /\ [][NextHttp]_vars

\* ------------------------------------------------------------ properties

\* The MCPHandler.handle calls that were admitted and have not returned.
InProgress ==
  {c \in Calls : pc[c] \in {"waitInit", "waitResp"} /\ callKind[c] # "initialize"}

\* The sendMessage calls whose request line is written and whose promise is
\* not settled.
Outstanding == {c \in Calls : pc[c] = "waitResp"}

\* Slot c takes a new MCPHandler.handle call in this step.
HandleCalled(c) ==
  /\ pc[c] = "idle"
  /\ pc'[c] # "idle" \/ settled'[c] # NoOutcome
  /\ settled'[c].kind # "ok"
  /\ callKind'[c] # "initialize"

\* What the bridge and the handler hold, apart from the child's side.
BridgeState ==
  <<process, killed, pendingMessages, timers, messageIdCounter, isInitialized,
    initPromise, att, waiters, activeOperations>>

\* C1: every call that is settled with the payload of a response (a result
\* or the error of an error response) is settled with the response the child
\* produced for that very call, never with one produced for another call.
NoCrossTalk ==
  [][\A c \in Outstanding :
       settled'[c].kind \in {"result", "rpcError"} => settled'[c].src = c]_vars

\* C2: with maxConcurrentOperations calls in progress, a further call to
\* MCPHandler.handle returns the capacity error in the same task, leaves
\* activeOperations as it was, is not queued anywhere, writes nothing to a
\* child and adds no record and no timer.
CapacityRejection ==
  [][\A c \in Calls :
       (Cardinality(InProgress) = maxConcurrentOperations /\ HandleCalled(c))
       => /\ settled'[c] = Out("capacity", 0)
          /\ activeOperations' = activeOperations
          /\ pc'[c] = "idle"
          /\ waiters' = waiters
          /\ stdin' = stdin
          /\ pendingMessages' = pendingMessages
          /\ timers' = timers
          /\ process' = process]_vars

CapacityRejectionWitness ==
  /\ Cardinality(InProgress) = maxConcurrentOperations
  /\ \E c \in Calls : settled[c].kind = "capacity"

\* C3: 0 <= activeOperations <= maxConcurrentOperations in every state.
CounterInRange ==
  activeOperations \in 0..maxConcurrentOperations

CounterInRangeWitness ==
  /\ activeOperations = maxConcurrentOperations
  /\ \E c \in Calls : settled[c].kind \in {"timeout", "exited"}

\* C4: activeOperations counts exactly the admitted calls that have not
\* completed: admission adds one, completion (result, error response,
\* timeout, process exit, failed handshake, failed write) takes exactly one
\* away, so with no call in progress the counter is 0; and a call arriving
\* while the counter is below the ceiling is admitted.
CounterMatchesInProgress ==
  [][/\ activeOperations' = Cardinality(InProgress')
     /\ \A c \in Calls :
          (activeOperations < maxConcurrentOperations /\ HandleCalled(c))
          => settled'[c].kind # "capacity"]_vars

\* A call has just completed with a result while another is in progress, the
\* counter is one below the ceiling of 2, and a slot is there for a new call.
CounterMatchesInProgressWitness ==
  /\ maxConcurrentOperations = 2
  /\ activeOperations = 1
  /\ \E c \in Calls : settled[c].kind = "result"
  /\ \E c \in Calls : pc[c] = "waitResp"

\* C5: the deadline timer of an outstanding call fires: the call is rejected
\* with the timeout error and no record is left under its id; and when the
\* answer to the request of a call that has timed out arrives afterwards, it
\* settles nobody and changes nothing in the bridge.
TimeoutThenLateResponseDropped ==
  [][/\ \A c \in Outstanding :
          Timeout(c) => /\ settled'[c] = Out("timeout", 0)
                        /\ pendingMessages'[reqId[c]] = None
     /\ \A p \in Procs, k \in 1..(MaxCalls + MaxAttempts), e \in BOOLEAN :
          (/\ k <= Len(stdin[p])
           /\ stdin[p][k].owner \in Calls
           /\ outcome[stdin[p][k].owner].kind = "timeout"
           /\ Deliver(p, k, e))
          => /\ \A o \in Owners : settled'[o] = NoOutcome
             /\ BridgeState' = BridgeState]_vars

\* C6: a child exits: every outstanding call is rejected with the
\* process-exited error carrying the exit code, no deadline timer stays armed
\* and the correlation table is empty.
ExitRejectsAllPending ==
  [][\A p \in Procs, code \in ExitCodes :
       ProcExit(p, code)
       => /\ \A c \in Outstanding : settled'[c] = Out("exited", code)
          /\ \A k \in 1..Len(timers') : timers'[k].t # "deadline"
          /\ \A i \in IdSpace : pendingMessages'[i] = None]_vars

\* The request line of call c is written to child p in this step.
Written(c, p) ==
  /\ \E k \in 1..Len(stdin'[p]) : stdin'[p][k].owner = c
  /\ ~\E k \in 1..Len(stdin[p]) : stdin[p][k].owner = c

\* The handshake closures that have not finished.
InFlight == {a \in Attempts : att[a] \in {"starting", "sent"}}

\* The calls awaiting the promise of handshake closure a.
Awaiting(a) == {waiters[a][k] : k \in 1..Len(waiters[a])}

\* C7: a call that arrives after a child has exited, with no child left,
\* writes nothing in the task of its arrival, and when its request line is
\* written it goes to the current child, which is running, has answered an
\* initialize request and has been sent notifications/initialized.
FreshHandshakeAfterExit ==
  [][\A c \in Calls, p \in Procs :
       /\ (HandleCalled(c) /\ afterExit'[c]) => ~Written(c, p)
       /\ (afterExit[c] /\ Written(c, p))
          => (p = process' /\ procState'[p] = "running" /\ ready'[p])]_vars

\* C8: at most one handshake closure is in flight, so the callers that arrive
\* while the bridge is not initialized cause one initialize request; every
\* waiting caller awaits a closure in flight; and when it settles every one of them
\* gets its outcome: its error, or on success the return of initialize() or
\* the go-ahead to send its request.
SingleHandshake ==
  [][/\ Cardinality(InFlight') <= 1
     /\ \A c \in Calls :
          pc'[c] = "waitInit"
          => \E a \in InFlight' : \E k \in 1..Len(waiters'[a]) : waiters'[a][k] = c
     /\ \A a \in InFlight : \A c \in Awaiting(a) :
          LET out == settled'[InitOwner(a)]
          IN /\ out.kind \notin {"none", "ok"} => settled'[c] = out
             /\ out.kind = "ok" => /\ pc'[c] # "waitInit"
                                   /\ callKind[c] = "initialize" => settled'[c] = out]_vars

\* C9: a request line of a call is written only to a child that has answered
\* an initialize request and has been sent notifications/initialized.
GateBeforeRequest ==
  [][\A c \in Calls, p \in Procs : Written(c, p) => ready'[p]]_vars

\* C10: a handshake closure fails: every caller awaiting it is rejected with
\* its error, isInitialized is false and no handshake is in flight; and a
\* sendMessage call that arrives in that state starts a new handshake closure
\* and awaits it.
HandshakeFailureResets ==
  [][/\ \A a \in InFlight :
          LET out == settled'[InitOwner(a)]
          IN out.kind \notin {"none", "ok"}
             => /\ \A c \in Awaiting(a) : settled'[c] = out
                /\ ~isInitialized'
                /\ initPromise' = 0
                /\ InFlight' = {}
     /\ \A c \in Calls :
          (/\ ~isInitialized /\ initPromise = 0 /\ InFlight = {}
           /\ HandleCalled(c)
           /\ settled'[c].kind \notin {"capacity"} \cup Invalid)
          => /\ initPromise' \in InFlight' \ InFlight
             /\ \E k \in 1..Len(waiters'[initPromise']) :
                   waiters'[initPromise'][k] = c]_vars

\* The children that were spawned and have not exited.
Live == {p \in Procs : procState[p] = "running"}

\* C11: at most one spawned child that has not exited exists at a time,
\* whether this.process names it or not.
AtMostOneLive ==
  Cardinality(Live) <= 1

\* C12: a task spawns at most one child, and spawns none while a child
\* spawned earlier has not exited.
SingleSpawn ==
  [][/\ Cardinality(Live' \ Live) <= 1
     /\ Live' \ Live # {} => Live = {}]_vars

\* The child's whole output has been read.
AllRead == rd = Len(Stream(lines))

\* What JSON.parse makes of a line the child wrote, decoded as a whole.
Parsed(line) == JSONparse(toString(line))
ValidLines == SelectSeq(lines, LAMBDA line : Parsed(line).ok)

\* C16: when the child writes only valid single-line JSON texts, each ended
\* by a newline, then however its bytes are cut into chunks, the messages
\* handed to handleMessage once everything is read are the parsed texts, in
\* order.
FramingRoundTrip ==
  (AllRead /\ ValidLines = lines)
  => handled = [i \in 1..Len(lines) |-> Parsed(lines[i]).value]

\* The members of a message other than its string member.
Envelope(message) == [message EXCEPT !.text = <<>>]

\* C17: a complete line that is not JSON hands nothing to handleMessage,
\* settles no call and publishes nothing, and the valid lines around it are
\* all parsed and handled, in order: once everything is read, the messages
\* handled are those of the valid lines (compared without their string
\* member), the forwarded call is settled only if its answer was among
\* them, and there are as many publications as notifications among them.
InvalidLineDiscarded ==
  AllRead
  => /\ Len(handled) = Len(ValidLines)
     /\ \A i \in 1..Len(handled) :
          Envelope(handled[i]) = Envelope(Parsed(ValidLines[i]).value)
     /\ pc[1] = "waitResp"
        <=> \A i \in 1..Len(lines) : ~(Parsed(lines[i]).ok /\ Parsed(lines[i]).value.id = 1)
     /\ Len(pubs) = Cardinality({i \in 1..Len(handled) : handled[i].method})

\* witness of C17: an invalid line was read between two valid ones
InvalidLineDiscardedWitness ==
  /\ AllRead
  /\ Len(lines) = 3
  /\ ~Parsed(lines[2]).ok
  /\ Parsed(lines[1]).ok /\ Parsed(lines[3]).ok
  /\ Len(handled) = 2
  /\ Len(buffer) = 0

\* The connections the n-th publication was written to, in the order of the
\* writes.
Deliveries(n) ==
  LET ws == SelectSeq(sseLog, LAMBDA w : w.n = n)
  IN [i \in 1..Len(ws) |-> ws[i].conn]

\* C13: a publication is written once to each listener registered at that
\* moment, in the order of registration, and to no other connection then or
\* later: one made while nobody listens is written nowhere, also not to a
\* connection that opens afterwards (a listener whose res.write throws
\* receives nothing).
FanOutInOrder ==
  /\ \A n \in 1..Len(pubs) :
       Deliveries(n) = SelectSeq(pubs[n].subs, LAMBDA k : k \notin pubs[n].failed)
  /\ \A i, j \in 1..Len(sseLog) : i < j => sseLog[i].n <= sseLog[j].n
  /\ \A i \in 1..Len(sseLog) : sseLog[i].n \in 1..Len(pubs)

\* witness of C13: a publication made while nobody listened, then one made
\* to two listeners, written to both
FanOutInOrderWitness ==
  /\ Len(pubs) >= 2
  /\ pubs[1].subs = <<>>
  /\ pubs[2].subs = <<1, 2>>
  /\ Deliveries(1) = <<>>
  /\ Deliveries(2) = <<1, 2>>

\* C14: when res.write of one listener throws during a publication, the
\* other listeners of that publication are still written to, the failing
\* one is unsubscribed, and the loop of processBuffer goes on: every line
\* read so far was handed to handleMessage and published.
ListenerFailureSwallowed ==
  /\ \A n \in 1..Len(pubs) :
       \A j \in 1..Len(pubs[n].subs) :
          LET k == pubs[n].subs[j]
          IN IF k \in pubs[n].failed
             THEN /\ \A i \in 1..Len(sseLog) : ~(sseLog[i].n = n /\ sseLog[i].conn = k)
                  /\ \A m \in (n + 1)..Len(pubs) :
                       \A i \in 1..Len(pubs[m].subs) : pubs[m].subs[i] # k
             ELSE Cardinality({i \in 1..Len(sseLog) :
                                 sseLog[i].n = n /\ sseLog[i].conn = k}) = 1
  /\ Len(Stream(SubSeq(lines, 1, Len(handled)))) = rd
  /\ Len(pubs) = Len(handled)

\* witness of C14: the first of two listeners failed on a publication, the
\* second was written to, and the line after it was published too
ListenerFailureSwallowedWitness ==
  /\ Len(pubs) >= 2
  /\ pubs[1].subs = <<1, 2>>
  /\ pubs[1].failed = {1}
  /\ Deliveries(1) = <<2>>
  /\ pubs[2].subs = <<2>>
  /\ Deliveries(2) = <<2>>
  /\ rd = Len(Stream(SubSeq(lines, 1, 2)))

\* C15: the listeners of "notification" are exactly the notificationHandlers
\* of the SSE connections that are open.
SubscribersAreOpenConnections ==
  {listeners[i] : i \in 1..Len(listeners)} = {k \in Conns : conn[k] = "open"}

\* C18: the response to a call rejected for capacity differs from the
\* response to a call that timed out and from the response to a call that
\* failed because the child exited (all three have status 200, code -32603
\* and message "Internal Error"; it is error.data that tells them apart).
CapacityResponseDistinct ==
  \A r1, r2 \in Conns :
     (http[r1].cause = "capacity" /\ http[r2].cause \in {"timeout", "exited"})
     => http[r1].response # http[r2].response

\* witness of C18: one request was answered with the capacity rejection and
\* another with the timeout
CapacityResponseDistinctWitness ==
  \E r1, r2 \in Conns :
     /\ http[r1].cause = "capacity"
     /\ http[r2].cause = "timeout"
     /\ http[r1].pos = "done" /\ http[r2].pos = "done"

\* The requests a step takes out of the middleware chain, and those of them
\* no middleware answered.
Processed ==
  {r \in Conns : http[r].pos \in {"none", "auth"} /\ http'[r].pos \in {"handler", "done"}}
Admitted == {r \in Processed : http'[r].rejectedBy = "" /\ http'[r].verb = "POST"}
Records(table) == Cardinality({i \in IdSpace : table[i] # None})
Writes(in) ==
  Cardinality({w \in Procs \X (1..(MaxCalls + MaxAttempts)) : w[2] <= Len(in[w[1]])})

\* C19: a request that the auth middleware or the request-validation
\* middleware answered never reaches the handler and becomes no call, and a
\* task that takes requests out of the middleware chain increments
\* activeOperations, adds records, arms timers and writes lines for at most
\* the POST requests among them that no middleware answered: for none when
\* all were rejected.
RejectedBeforeAdmission ==
  [][/\ \A r \in Conns :
          http'[r].rejectedBy # "" => ~http'[r].reached /\ http'[r].call = 0
     /\ Processed # {}
        => /\ activeOperations' <= activeOperations + Cardinality(Admitted)
           /\ Records(pendingMessages') <= Records(pendingMessages) + Cardinality(Admitted)
           /\ Writes(stdin') <= Writes(stdin) + Cardinality(Admitted)
           /\ Len(timers') <= Len(timers) + Cardinality(Admitted)
           /\ Admitted = {} => UNCHANGED <<activeOperations, pendingMessages, stdin,
                                           timers, messageIdCounter, process>>]_vars

\* witness of C19: one POST was rejected by the auth middleware and one by
\* the request-validation middleware, and the bridge is as it was at
\* start-up
RejectedBeforeAdmissionWitness ==
  /\ \E r1, r2 \in Conns :
        /\ http[r1].verb = "POST" /\ http[r1].rejectedBy = "auth"
        /\ http[r2].verb = "POST" /\ http[r2].rejectedBy = "validation"
  /\ Started

\* The one header that authenticates.
GoodHeader == <<"Bearer", "sp">> \o ExpectedToken

\* C20: with authentication enabled, a request whose handler was invoked
\* carried "Bearer <token>" with the expected token, which was available;
\* a request with any other header is answered 401 or 500 by the auth
\* middleware (at the latest when the token load ends) and its handler is
\* never invoked, and while no token is available no request that was
\* answered reached the handler.
AuthGate ==
  enableAuth
  => \A r \in Conns :
        /\ http[r].reached
           => /\ http[r].auth = GoodHeader
              /\ cachedToken = TokenString(ExpectedToken)
        /\ (http[r].pos # "none" /\ http[r].auth # GoodHeader)
           => /\ http[r].pos \in {"auth", "done"}
              /\ http[r].pos = "done"
                 => /\ http[r].rejectedBy = "auth"
                    /\ http[r].response.status \in {401, 500}
                    /\ http[r].response.code # 0
        /\ http[r].pos = "done" /\ cachedToken.k \in {"null", "undefined"}
           => /\ ~http[r].reached
              /\ http[r].response.status \in {401, 500}

\* witness of C20: with the token in Secret Manager, one request reached
\* the handler, one with a wrong token of the same length was answered 401
AuthGateWitness ==
  /\ config.authSecretName
  /\ config.authToken = <<>>
  /\ \E r1, r2 \in Conns :
        /\ http[r1].reached
        /\ http[r2].auth = <<"Bearer", "sp", "a", "a">>
        /\ http[r2].response.data = "Invalid token"

\* The deadline timer of owner o is armed.
TimerArmed(o) == \E k \in 1..Len(timers) : timers[k] = Deadline(o)

\* sendMessageInternal reaches its promise executor for owner o in this step.
Registered(o) == ~TimerArmed(o) /\ TimerArmed(o)'

\* The errors sendRawMessage throws.
WriteErrors == {"notRunning", "stdinUnavailable"}

\* C21: when sendMessageInternal reaches its write and there is no live
\* handle or the handle's stdin is unavailable, nothing is written and the
\* caller is rejected in the same task with the error of sendRawMessage, which
\* is not the timeout error: a call is settled and does not wait, and a
\* handshake closure fails and rejects every caller awaiting it.
WriteFailsFast ==
  [][\A o \in Owners :
       (Registered(o) /\ \A p \in Procs : ~Written(o, p))
       => /\ settled'[o].kind \in WriteErrors
          /\ o \in Calls => pc'[o] \notin {"waitInit", "waitResp"}
          /\ IsAttempt(o)
             => /\ att'[AttemptOf(o)] \notin {"starting", "sent"}
                /\ \A c \in Awaiting(AttemptOf(o)) : settled'[c] = settled'[o]]_vars

\* A call has just been rejected because the stdin of the current child is
\* unavailable, and its timer is armed.
WriteFailsFastWitness ==
  /\ \E c \in Calls : settled[c].kind \in WriteErrors /\ TimerArmed(c)
  /\ process # 0 /\ ~stdinOpen[process]

\* MCPHandler.handle returns for call c in this step.
Returns(c) ==
  /\ settled'[c].kind # "none"
  /\ IF pc[c] = "idle" THEN HandleCalled(c) ELSE callKind[c] # "initialize"

\* The failures inside the bridge a call can end with.
Failures ==
  {"timeout", "exited", "rpcError", "notRunning", "stdinUnavailable"}

\* C22 as stated: for every request and every failure inside the bridge
\* MCPHandler.handle returns a response that carries a result or an error
\* with a code and a message, and whose id equals the id the request came
\* with.
ResponseEchoesSuppliedId ==
  [][\A c \in Calls :
       Returns(c) => /\ responseOf(settled'[c]).status = 200
                     /\ returned'[c].response = returned'[c].request]_vars

\* C22, amended: for every request and every failure inside the bridge
\* MCPHandler.handle returns a response that carries a result, or an error
\* with a code and a message; its id is the id the request came with when it
\* came with one, and otherwise the id sendMessageInternal assigned to the
\* request from messageIdCounter, or none when the request was never passed
\* to sendMessageInternal.
HandleReturnsResponse ==
  [][\A c \in Calls :
       Returns(c)
       => LET r == responseOf(settled'[c])
          IN /\ r.status = 200
             /\ \/ settled'[c].kind = "result" /\ r.code = 0
                \/ /\ settled'[c].kind \in Failures \cup {"capacity"} \cup Invalid
                   /\ r.code \in {-32600, -32603} /\ r.message # ""
             /\ returned'[c].request # NoId
                => returned'[c].response = returned'[c].request
             /\ returned'[c].request = NoId
                => \/ returned'[c].response = NoId
                   \/ /\ returned'[c].response \in 1..messageIdCounter'
                      /\ settled'[c].kind \notin {"capacity"} \cup Invalid]_vars

\* A call that came without an id has just returned a failure of the bridge
\* under the id the bridge assigned to it.
HandleReturnsResponseWitness ==
  \E c \in Calls :
     /\ settled[c].kind \in Failures
     /\ returned[c].request = NoId
     /\ returned[c].response \in 1..messageIdCounter

\* The calls that have not completed.
Pending == {c \in Calls : pc[c] \in {"waitInit", "waitResp"}}

\* The sendMessage calls that complete in this step.
Completes(c) ==
  /\ settled'[c].kind \notin {"none", "ok", "capacity"} \cup Invalid
  /\ IF pc[c] = "idle" THEN HandleCalled(c) ELSE callKind[c] # "initialize"

\* A line of a child's output is read, a deadline timer fires, a child exits.
LineRead ==
  \E p \in Procs, k \in 1..(MaxCalls + MaxAttempts), e \in BOOLEAN : Deliver(p, k, e)
ChildExits ==
  \E p \in Procs : procState[p] = "running" /\ procState'[p] = "exited"

\* C23 as stated, its safety half: a sendMessage call completes only in the
\* task of one of three events: a response is read, a deadline timer fires,
\* a child exits.
OnlyThreeWakeEvents ==
  [][\A c \in Calls :
       Completes(c) => LineRead \/ DeadlineTimers \/ ChildExits]_vars

\* C23, amended: every call completes in the end.  A call whose request line
\* is written completes only in three ways: with a result or an error when a
\* response under its id is read, with the timeout error when its own
\* deadline timer fires, with the exit error when a child exits.  A call
\* whose request line is not written yet completes, besides, with the error
\* of the handshake closure it awaits when that fails, and with the error of
\* sendRawMessage when its own write fails; until it completes, its own
\* timer or a timer of the closure it awaits is armed.
CallsComplete ==
  /\ \A c \in Calls : (c \in Pending) ~> (c \notin Pending)
  /\ [][\A c \in Calls :
          /\ (pc[c] = "waitResp" /\ Completes(c))
             => \/ /\ settled'[c].kind \in {"result", "rpcError"}
                   /\ \E p \in Procs : \E k \in 1..Len(stdin[p]) :
                         /\ stdin[p][k].id = reqId[c]
                         /\ \E e \in BOOLEAN : Deliver(p, k, e)
                \/ settled'[c].kind = "timeout" /\ DeadlineElapsed(c)
                \/ settled'[c].kind = "exited" /\ ChildExits
          /\ (pc[c] # "waitResp" /\ Completes(c))
             => \/ settled'[c].kind \in WriteErrors
                \/ \E a \in InFlight :
                      c \in Awaiting(a) /\ settled'[InitOwner(a)] = settled'[c]
          /\ pc'[c] = "waitResp" => TimerArmed(c)'
          /\ pc'[c] = "waitInit"
             => \E a \in Attempts :
                   /\ \E k \in 1..Len(waiters'[a]) : waiters'[a][k] = c
                   /\ \E k \in 1..Len(timers') : timers'[k].o = InitOwner(a)]_vars

\* Two calls are outstanding under one id, so that one of them holds no
\* record and only its own timer can complete it; the clients, the child and
\* shutdown do nothing more.
CallsCompleteWitness ==
  /\ steps = MaxEnvSteps
  /\ \E c, d \in Outstanding :
        c # d /\ reqId[c] = reqId[d] /\ pendingMessages[reqId[c]] = d

\* The request lines with id i written to child p and not yet answered.
LinesWith(p, i) == {k \in 1..Len(stdin[p]) : stdin[p][k].id = i}

\* C24: every id in pendingMessages has exactly one request line under it
\* that was written to a child and is not yet answered, and that line is the
\* one of the record's owner; and a record leaves the table only when a
\* response with its id is read, when the deadline timer of its owner fires,
\* or when a child exits.
RecordsAreWrittenLines ==
  /\ [](\A i \in IdSpace :
          pendingMessages[i] # None
          => \E p \in Procs :
                /\ Cardinality(LinesWith(p, i)) = 1
                /\ \A k \in LinesWith(p, i) : stdin[p][k].owner = pendingMessages[i]
                /\ \A q \in Procs \ {p} : LinesWith(q, i) = {})
  /\ [][\A i \in IdSpace :
          (pendingMessages[i] # None /\ pendingMessages'[i] # pendingMessages[i])
          => \/ \E p \in Procs : \E k \in LinesWith(p, i) :
                   \E e \in BOOLEAN : Deliver(p, k, e)
             \/ Timeout(pendingMessages[i])
             \/ ChildExits]_vars

\* The owners whose request line is written and whose promise is pending:
\* the outstanding calls and the handshake closures awaiting the answer to
\* initialize.
OutstandingOwners ==
  Outstanding \cup {InitOwner(a) : a \in {b \in Attempts : att[b] = "sent"}}

\* C25: every outstanding request holds the record under its id, whether
\* the id came from the caller, from messageIdCounter, or is the 0 of the
\* handshake, so that no two outstanding requests share an id; and
\* registering a record never replaces the record of a request that is
\* still outstanding.
UniqueOutstandingIds ==
  /\ [](\A o \in OutstandingOwners : pendingMessages[IdOf(St, o)] = o)
  /\ [][\A i \in IdSpace :
          (pendingMessages[i] \in OutstandingOwners'
           /\ pendingMessages'[i] # None)
          => pendingMessages'[i] = pendingMessages[i]]_vars

\* The bridge reads one line in this step, and the message it decodes to.
Reads == Len(handled') = Len(handled) + 1
Decoded == handled'[Len(handled')]

\* The owner of the record the decoded message matches (None: no record).
Matched ==
  IF Decoded.null \/ Decoded.id = NoId THEN None ELSE pendingMessages[Decoded.id]

\* C26: for each decoded message: when its id matches a record, that record
\* and no other is removed, the timer of its owner and no other is cancelled,
\* its owner and nobody else is settled, with the result, or with the error
\* when the message has an error member, and nothing is published; when no
\* record matches and the message has a method, it is published once, to
\* every listener, and the bridge is unchanged; otherwise nothing changes.
InboundDispatch ==
  [][Reads =>
       /\ Matched # None
          => /\ pendingMessages' = [pendingMessages EXCEPT ![Decoded.id] = None]
             /\ timers' = SelectSeqNot(timers, Deadline(Matched))
             /\ settled'[Matched].kind = IF Decoded.error THEN "rpcError" ELSE "result"
             /\ \A o \in Owners \ {Matched} : settled'[o] = NoOutcome
             /\ pubs' = pubs /\ sseLog' = sseLog
       /\ (Matched = None /\ ~Decoded.null /\ Decoded.method)
          => /\ Len(pubs') = Len(pubs) + 1
             /\ Len(sseLog') = Len(sseLog) + Len(listeners)
             /\ \A o \in Owners : settled'[o] = NoOutcome
             /\ BridgeState' = BridgeState
       /\ (Matched = None /\ (Decoded.null \/ ~Decoded.method))
          => /\ pubs' = pubs /\ sseLog' = sseLog
             /\ \A o \in Owners : settled'[o] = NoOutcome
             /\ BridgeState' = BridgeState
             /\ listeners' = listeners]_vars

\* With two records in the table and a listener registered, a message that
\* has a method and an error member has just been taken for the response to
\* one of them.
InboundDispatchWitness ==
  /\ handled # <<>>
  /\ handled[Len(handled)].method /\ handled[Len(handled)].error
  /\ \E c \in Calls : settled[c].kind = "rpcError"
  /\ \E i \in IdSpace : pendingMessages[i] # None
  /\ listeners # <<>>

\* C27: the deadline timer of an outstanding call fires: that call and
\* nobody else is rejected, with the timeout error; the records of the other
\* requests and their timers stay as they are; so do the handshake state and
\* the handle; and nothing is written to a child.
TimeoutTouchesOnlyItsRequest ==
  [][\A c \in Outstanding :
       Timeout(c)
       => /\ settled'[c] = Out("timeout", 0)
          /\ \A o \in Owners \ {c} : settled'[o] = NoOutcome
          /\ \A i \in IdSpace :
                pendingMessages[i] # c => pendingMessages'[i] = pendingMessages[i]
          /\ timers' = SelectSeqNot(timers, Deadline(c))
          /\ <<isInitialized, initPromise, att, waiters>>' =
                <<isInitialized, initPromise, att, waiters>>
          /\ <<process, procState, killed>>' = <<process, procState, killed>>
          /\ stdin' = stdin]_vars

\* Child p emits its exit event in this step.
Exits(p) == procState[p] = "running" /\ procState'[p] = "exited"

\* The child that handshake closure a obtained when it started has exited.
StartedOnExited(a) == proc[a] = Gone \/ (proc[a] # 0 /\ procState[proc[a]] # "running")

\* C28: a child's exit event, whatever the handshake state, leaves
\* isInitialized false; and a handshake closure that started on a child that
\* has exited since never sets isInitialized.
ExitResetsSequencer ==
  [][/\ \A p \in Procs : Exits(p) => ~isInitialized'
     /\ \A a \in InFlight :
          (settled'[InitOwner(a)].kind = "ok" /\ isInitialized')
          => ~StartedOnExited(a)]_vars

\* C29: while isInitialized is true, this.process names a child that is
\* running, and it is that child whose answer to an initialize request set
\* isInitialized and which was sent notifications/initialized.
ReadyMeansInitializedChild ==
  isInitialized => /\ process # 0
                   /\ procState[process] = "running"
                   /\ ready[process]

\* C30: the exit event of a child that this.process no longer names, while
\* this.process names a child spawned since, leaves this.process,
\* isInitialized and initPromise as they are, and leaves in the table the
\* record of every request whose line was written to the current child.
StaleExitChangesNothing ==
  [][\A p \in Procs :
       (Exits(p) /\ process # 0 /\ process # p)
       => /\ process' = process
          /\ isInitialized' = isInitialized
          /\ initPromise' = initPromise
          /\ \A i \in IdSpace :
                (/\ pendingMessages[i] # None
                 /\ \E k \in 1..Len(stdin[process]) :
                       /\ stdin[process][k].owner = pendingMessages[i]
                       /\ stdin[process][k].id = i)
                => pendingMessages'[i] = pendingMessages[i]]_vars

\* The first line of the current child's output is read to its end in this
\* step.
FirstLineRead ==
  /\ lines # <<>>
  /\ lines' = lines
  /\ rd <= Len(lines[1])
  /\ rd' > Len(lines[1])

\* C31: when the first complete line of a child's output has been read, and
\* it is a JSON text, the next message handed to handleMessage is that text
\* parsed: nothing of an earlier child's output is decoded with it.
BufferHoldsCurrentChildOnly ==
  [][(FirstLineRead /\ JSONparse(toString(lines[1])).ok)
     => /\ Len(handled') > Len(handled)
        /\ handled'[Len(handled) + 1] = JSONparse(toString(lines[1])).value]_vars

\* C32: when a call or a handshake closure is rejected with an error of
\* sendRawMessage, no record of the table and no armed deadline timer
\* belongs to it after the task.
FailedWriteLeavesNothing ==
  [][\A o \in Owners :
       settled'[o].kind \in WriteErrors
       => /\ ~TimerArmed(o)'
          /\ \A i \in IdSpace : pendingMessages'[i] # o]_vars

\* C33: the correlation table never holds more than maxConcurrentOperations
\* records, the record of a handshake's initialize request included.
TableWithinCeiling ==
  Cardinality({i \in IdSpace : pendingMessages[i] # None}) <= maxConcurrentOperations

\* The message the k-th line of the child's output decodes to, and the owner
\* of the record it matches (None: no record).
LineMessage(k) == JSONparse(toString(lines[k])).value
LineOwner(k) ==
  IF LineMessage(k).null \/ LineMessage(k).id = NoId THEN None
  ELSE pendingMessages[LineMessage(k).id]

\* Line k is the first line of the chunk being read that carries its id: the
\* record under that id, if there is one, is still in the table when the
\* line is handled.
FirstWithItsId(k) ==
  \A m \in (Len(handled) + 1)..(k - 1) :
     LineMessage(m).null \/ LineMessage(m).id # LineMessage(k).id

\* C34: of two responses read in one chunk, each matching the record of a
\* pending request, the caller of the one read first is resolved or rejected
\* first, whatever the order in which the two requests were sent; and every
\* owner a message was delivered to is settled in that task.
ResponsesInReadOrder ==
  [][(Len(handled') > Len(handled) /\ lines' = lines)
     => /\ \A j, k \in (Len(handled) + 1)..Len(handled') :
             (/\ j < k
              /\ LineOwner(j) # None /\ LineOwner(k) # None
              /\ FirstWithItsId(j) /\ FirstWithItsId(k))
             => \E a, b \in 1..Len(delivered') :
                   /\ a < b
                   /\ delivered'[a] = LineOwner(j)
                   /\ delivered'[b] = LineOwner(k)
        /\ \A a \in 1..Len(delivered') :
             settled'[delivered'[a]].kind \in {"result", "rpcError"}]_vars

\* Two responses have just been read in one chunk, and the call that was
\* sent second was answered and resolved first.
ResponsesInReadOrderWitness ==
  /\ delivered = <<2, 1>>
  /\ settled[1].kind = "result" /\ settled[2].kind = "result"
  /\ Len(handled) = 2 /\ handled[1].id = 0 /\ handled[2].id = 1

\* Line x is in sequence s; its place there.
HasLine(s, x) == \E i \in 1..Len(s) : s[i] = x
PlaceOf(s, x) == CHOOSE i \in 1..Len(s) : s[i] = x

\* C35: the unanswered request lines of a child's stdin keep their order; a
\* line written in a task comes after every line written before, is written
\* to the current handle by an owner that reached the write of
\* sendMessageInternal in that task, one line per owner; and the lines
\* written in one task lie in the order in which their owners reached the
\* write, which is the order in which their deadline timers were armed.
WritesInArrivalOrder ==
  [][\A p \in Procs :
       procState'[p] # "none"
       => /\ \A j, k \in 1..Len(stdin'[p]) :
               j < k
               => /\ (HasLine(stdin[p], stdin'[p][j]) /\ HasLine(stdin[p], stdin'[p][k]))
                     => PlaceOf(stdin[p], stdin'[p][j]) < PlaceOf(stdin[p], stdin'[p][k])
                  /\ HasLine(stdin[p], stdin'[p][k]) => HasLine(stdin[p], stdin'[p][j])
                  /\ (~HasLine(stdin[p], stdin'[p][j]) /\ ~HasLine(stdin[p], stdin'[p][k]))
                     => /\ stdin'[p][j].owner # stdin'[p][k].owner
                        /\ PlaceOf(timers', Deadline(stdin'[p][j].owner))
                             < PlaceOf(timers', Deadline(stdin'[p][k].owner))
          /\ \A j \in 1..Len(stdin'[p]) :
               ~HasLine(stdin[p], stdin'[p][j])
               => /\ p = process'
                  /\ \E o \in Owners : o = stdin'[p][j].owner /\ Registered(o)]_vars

\* A handshake has just succeeded and the two calls that awaited it have
\* written their request lines to the same child in that task.
WritesInArrivalOrderWitness ==
  /\ \E a \in Attempts : settled[InitOwner(a)].kind = "ok"
  /\ \E p \in Procs :
        /\ Len(stdin[p]) = 2
        /\ stdin[p][1].kind = "request" /\ stdin[p][2].kind = "request"
        /\ stdin[p][1].owner # stdin[p][2].owner

\* The request line of call c lies unanswered in the stdin of child p.
InFlightOn(c, p) == \E k \in 1..Len(stdin[p]) : stdin[p][k].owner = c

\* A call writes its request line only when it has not written one before.
WritesAtMostOnce ==
  \A c \in Calls, p \in Procs : Written(c, p) => pc[c] \in {"idle", "waitInit"}

\* C36: a call whose request line was written to a child that exits is not
\* resolved and not sent again: in the task of the exit event it is rejected
\* with the process-exited error or left pending, and its line is in no
\* other child's stdin; as long as it is pending after that, only a
\* rejection settles it; and no call ever writes its request line a second
\* time, to that child or to a later one.
NoRetryAfterExit ==
  [][/\ \A p \in Procs :
          Exits(p)
          => \A c \in Outstanding :
                InFlightOn(c, p)
                => /\ settled'[c].kind \in {"exited", "none"}
                   /\ \A q \in Procs \ {p} :
                         \A k \in 1..Len(stdin'[q]) : stdin'[q][k].owner # c
     /\ \A p \in Procs, c \in Outstanding :
          (procState[p] = "exited" /\ InFlightOn(c, p))
          => settled'[c].kind \in {"none", "timeout", "exited"}
     /\ WritesAtMostOnce]_vars

\* A child has exited with the request of a call unanswered, the call was
\* rejected with the process-exited error, and a replacement child runs.
NoRetryAfterExitWitness ==
  \E p \in Procs, c \in Calls :
     /\ procState[p] = "exited"
     /\ InFlightOn(c, p)
     /\ outcome[c].kind = "exited"
     /\ process # 0 /\ process # p /\ procState[process] = "running"

\* POST request r, alone in this step, reaches MCPHandler.handle.
AloneReachesHandle(r) ==
  /\ http'[r].reached /\ ~http[r].reached
  /\ http'[r].verb = "POST"
  /\ \A q \in Conns \ {r} : http'[q].reached = http[q].reached

\* C37: a request that MCPHandler.handle admits and whose jsonrpc is not
\* "2.0", or whose method is missing, is answered in the same task with the
\* error -32600 "Invalid Request"; no child is spawned, no handshake is
\* started, nothing is written to a child, the table and the timers stay as
\* they are, and activeOperations is what it was before the call.
InvalidRequestTouchesNothing ==
  [][\A r \in Conns :
       (/\ AloneReachesHandle(r)
        /\ activeOperations < maxConcurrentOperations
        /\ ~http'[r].body.jsonrpc \/ http'[r].body.method = "")
       => /\ http'[r].pos = "done"
          /\ http'[r].response =
                Response(200, -32600, "Invalid Request",
                         IF ~http'[r].body.jsonrpc THEN "jsonrpc must be '2.0'"
                         ELSE "method is required")
          /\ activeOperations' = activeOperations
          /\ <<process, procState, killed>>' = <<process, procState, killed>>
          /\ <<isInitialized, initPromise, att, waiters>>' =
                <<isInitialized, initPromise, att, waiters>>
          /\ stdin' = stdin
          /\ pendingMessages' = pendingMessages
          /\ timers' = timers]_vars

\* A request with jsonrpc "2.0" and no method has been answered with -32600
\* while there is no child and the bridge is not initialized.
InvalidRequestTouchesNothingWitness ==
  \E r \in Conns :
     /\ http[r].pos = "done" /\ http[r].reached
     /\ http[r].body.jsonrpc /\ http[r].body.method = ""
     /\ http[r].cause = "noMethod"
     /\ http[r].response.code = -32600
     /\ process = 0 /\ ~isInitialized

\* ------------------------------------------------------ ElicitationHandler

\* The fields of ElicitationHandler and what its calls did, as one record.
Elicit ==
  [counter |-> elicitationIdCounter, pending |-> pendingElicitations,
   timers |-> elicitationTimers, settledBy |-> elicitationSettled,
   events |-> elicitationEvents, call |-> elicitationCall]

\* The responses a client submits and the reasons a cancel gives ("": none).
ElicitResponses == {"a", "b"}
ElicitReasons == {"", "r"}

\* A call of resolve or reject of a promise.
Resolved(response) == [kind |-> "resolved", v |-> response]
Rejected(message) == [kind |-> "rejected", v |-> message]

ElicitCall(op, id, arg, thrown) ==
  [op |-> op, id |-> id, arg |-> arg, thrown |-> thrown]

\* requestElicitation(request, timeoutMs): the id is drawn, the timer is
\* armed, the record is stored, the event is emitted.  The listeners of the
\* event write to SSE responses inside try / catch and throw nothing.
requestElicitation(E) ==
  LET n == E.counter + 1
  IN [E EXCEPT !.counter = n,
               !.timers = @ \cup {n},
               !.pending[n] = PendingElicitation(n, n),
               !.events = Append(@, n),
               !.call = ElicitCall("request", n, "", "")]

\* submitElicitationResponse that leaves the record in the map.
submitElicitationResponseKeeps(E, id, response) ==
  LET pending == E.pending[id]
  IN IF pending = NoPending
     THEN [E EXCEPT !.call = ElicitCall("submit", id, response,
                                        "No pending elicitation found for id")]
     ELSE [E EXCEPT !.timers = @ \ {pending.timeout},
                    !.settledBy[pending.promise] = Append(@, Resolved(response)),
                    !.call = ElicitCall("submit", id, response, "")]

\* submitElicitationResponse(id, response)
submitElicitationResponse(E, id, response) ==
  LET pending == E.pending[id]
  IN IF pending = NoPending
     THEN [E EXCEPT !.call = ElicitCall("submit", id, response,
                                        "No pending elicitation found for id")]
     ELSE [E EXCEPT !.pending[id] = NoPending,
                    !.timers = @ \ {pending.timeout},
                    !.settledBy[pending.promise] = Append(@, Resolved(response)),
                    !.call = ElicitCall("submit", id, response, "")]

\* cancelElicitation(id, reason)
cancelElicitation(E, id, reason) ==
  LET pending == E.pending[id]
  IN IF pending = NoPending
     THEN [E EXCEPT !.call = ElicitCall("cancel", id, reason, "")]
     ELSE [E EXCEPT !.pending[id] = NoPending,
                    !.timers = @ \ {pending.timeout},
                    !.settledBy[pending.promise] =
                       Append(@, Rejected(IF reason # "" THEN reason
                                          ELSE "Elicitation request cancelled")),
                    !.call = ElicitCall("cancel", id, reason, "")]

\* The callback of the timer that call n of requestElicitation armed; id is
\* the id of that call.
elicitationTimeout(E, n) ==
  [E EXCEPT !.pending[n] = NoPending,
            !.timers = @ \ {n},
            !.settledBy[n] = Append(@, Rejected("Elicitation request timeout")),
            !.call = ElicitCall("timeout", n, "", "")]

\* The task of a call of ElicitationHandler leaves E.
CommitElicit(E) ==
  /\ elicitationIdCounter' = E.counter
  /\ pendingElicitations' = E.pending
  /\ elicitationTimers' = E.timers
  /\ elicitationSettled' = E.settledBy
  /\ elicitationEvents' = E.events
  /\ elicitationCall' = E.call
  /\ UNCHANGED <<process, procState, killed, stdinOpen, ready, stdin,
                 pendingMessages, timers, messageIdCounter, isInitialized,
                 initPromise, att, waiters, proc, activeOperations, pc,
                 callKind, reqId, outcome, afterExit, suppliedId, returned,
                 steps, settled, delivered, lines, rd, buffer, handled,
                 listeners, conn, sseLog, pubs>>
  /\ UNCHANGED httpVars

\* A caller requests an elicitation.
RequestElicitation ==
  /\ elicitationIdCounter < MaxElicitations
  /\ CommitElicit(requestElicitation(Elicit))

\* A client submits a response for id, pending or not.
SubmitElicitation(id, response) ==
  /\ response \in ElicitResponses
  /\ CommitElicit(submitElicitationResponse(Elicit, id, response))

\* A caller cancels id, pending or not.
CancelElicitation(id, reason) ==
  /\ reason \in ElicitReasons
  /\ CommitElicit(cancelElicitation(Elicit, id, reason))

\* An armed timer fires; the calls choose their own timeoutMs, so any of
\* the armed timers may be the first.
ElicitationTimeout(n) ==
  /\ n \in elicitationTimers
  /\ CommitElicit(elicitationTimeout(Elicit, n))

NextElicit ==
  \/ RequestElicitation
  \/ \E id \in ElicitIds, response \in ElicitResponses :
        SubmitElicitation(id, response)
  \/ \E id \in ElicitIds, reason \in ElicitReasons : CancelElicitation(id, reason)
  \/ \E n \in ElicitIds : ElicitationTimeout(n)

SpecElicit == Init /\ [][NextElicit]_vars

\* Elicitation n is registered and unsettled.
PendingNow(n) == pendingElicitations[n] # NoPending

\* The step is a call op for id i, and it leaves every other elicitation as
\* it was.
ElicitStep(op, i) ==
  /\ elicitationCall'.op = op
  /\ elicitationCall'.id = i

OthersUntouched(i) ==
  \A j \in ElicitIds \ {i} :
     /\ pendingElicitations'[j] = pendingElicitations[j]
     /\ elicitationSettled'[j] = elicitationSettled[j]
     /\ (j \in elicitationTimers') = (j \in elicitationTimers)

\* C38: each elicitation that requestElicitation registered is settled
\* exactly once, by the first of submitElicitationResponse, cancelElicitation
\* and its timeout, and is removed from the pending set in that step;
\* afterwards a submit for its id throws "No pending elicitation found" and a
\* cancel for it does nothing, and neither changes another elicitation.
ElicitationSettledOnce ==
  /\ [](\A n \in ElicitIds :
          /\ Len(elicitationSettled[n]) <= 1
          /\ n <= elicitationIdCounter
               => /\ PendingNow(n) <=> elicitationSettled[n] = <<>>
                  /\ PendingNow(n) <=> n \in elicitationTimers
          /\ n > elicitationIdCounter
               => ~PendingNow(n) /\ elicitationSettled[n] = <<>>)
  /\ [][\A i \in ElicitIds :
          /\ (PendingNow(i) /\ ElicitStep("submit", i))
               => /\ elicitationSettled'[i] = <<Resolved(elicitationCall'.arg)>>
                  /\ ~PendingNow(i)'
                  /\ elicitationCall'.thrown = ""
          /\ (PendingNow(i) /\ ElicitStep("cancel", i))
               => /\ elicitationSettled'[i] =
                        <<Rejected(IF elicitationCall'.arg # ""
                                   THEN elicitationCall'.arg
                                   ELSE "Elicitation request cancelled")>>
                  /\ ~PendingNow(i)'
          /\ (PendingNow(i) /\ ElicitStep("timeout", i))
               => /\ elicitationSettled'[i] =
                        <<Rejected("Elicitation request timeout")>>
                  /\ ~PendingNow(i)'
          /\ (~PendingNow(i) /\ ElicitStep("submit", i))
               => /\ elicitationCall'.thrown =
                        "No pending elicitation found for id"
                  /\ pendingElicitations' = pendingElicitations
                  /\ elicitationSettled' = elicitationSettled
                  /\ elicitationTimers' = elicitationTimers
          /\ (~PendingNow(i) /\ ElicitStep("cancel", i))
               => /\ elicitationCall'.thrown = ""
                  /\ pendingElicitations' = pendingElicitations
                  /\ elicitationSettled' = elicitationSettled
                  /\ elicitationTimers' = elicitationTimers
          /\ (ElicitStep("submit", i) \/ ElicitStep("cancel", i)
              \/ ElicitStep("timeout", i))
               => OthersUntouched(i)
          /\ ~PendingNow(i) => ~ElicitStep("timeout", i)]_vars

\* A submit for an elicitation that a cancel had settled has thrown, while
\* another elicitation is pending and a third was settled by its timeout.
ElicitationSettledOnceWitness ==
  /\ elicitationCall.op = "submit"
  /\ elicitationCall.thrown = "No pending elicitation found for id"
  /\ elicitationCall.id <= elicitationIdCounter
  /\ elicitationSettled[elicitationCall.id] =
        <<Rejected("Elicitation request cancelled")>>
  /\ \E j \in ElicitIds : PendingNow(j)
  /\ \E j \in ElicitIds :
        elicitationSettled[j] = <<Rejected("Elicitation request timeout")>>

\* --------------------------------------------------------- the token load

\* Request r arrives in this step and its Authorization header passes the
\* checks that precede await getCachedAuthToken(config).
ArrivesNeedingToken(r) ==
  /\ http[r].pos = "none" /\ http'[r].pos # "none"
  /\ enableAuth
  /\ Len(splitOn(http'[r].auth, "sp")) = 2
  /\ splitOn(http'[r].auth, "sp")[1] = <<"Bearer">>

\* The load in flight settles in this step.
LoadSettles == tokenPromise = "pending" /\ tokenPromise' = "null"

LoadFailedAnswer ==
  Response(500, -32603, "Internal Error",
           "Failed to load authentication token from Secret Manager")

\* C39: the requests that need the expected token share one load: at most
\* one call of getAuthToken is unsettled at a time and every waiting request
\* waits for it; a load that succeeds caches its value, and while a value is
\* cached no load is started and the value stays; a load that fails caches
\* nothing, and the next request that needs the token starts a new load.
TokenLoadShared ==
  /\ [](/\ tokenLoads.pending <= 1
        /\ tokenLoads.pending = 1 <=> tokenPromise = "pending"
        /\ awaiting # <<>> => tokenPromise = "pending"
        /\ tokenPromise = "pending" => cachedToken = TokenNull)
  /\ [][/\ cachedToken # TokenNull
             => /\ tokenLoads' = tokenLoads
                /\ cachedToken' = cachedToken
        /\ LoadSettles
             => /\ tokenLoads'.started = tokenLoads.started
                /\ \A k \in 1..Len(awaiting) :
                      IF http'[awaiting[k]].response = LoadFailedAnswer
                      THEN cachedToken' = TokenNull
                      ELSE cachedToken' # TokenNull
        /\ \A r \in Conns :
              ArrivesNeedingToken(r) /\ cachedToken = TokenNull
                => IF tokenPromise = "pending"
                   THEN /\ tokenLoads' = tokenLoads
                        /\ awaiting' = Append(awaiting, r)
                        /\ tokenPromise' = "pending"
                   ELSE tokenLoads'.started = tokenLoads.started + 1]_vars

\* A load failed and its request was answered 500; the next request has
\* started a second load, which is in flight and nothing is cached.
TokenLoadSharedWitness ==
  /\ tokenLoads = [started |-> 2, pending |-> 1]
  /\ cachedToken = TokenNull
  /\ \E r \in Conns : http[r].response = LoadFailedAnswer
  /\ awaiting # <<>>

====
